---- MODULE Spec2Model ----
(***************************************************************************)
(* Observatory (bobs): the Target facade of bobs/obs/targets.py.           *)
(*                                                                         *)
(* A Target owns a Gatherer process that runs an asyncio _worker and puts  *)
(* raw bytes on a multiprocessing Queue, and a decoder (_get_buffers,      *)
(* candidates, next) that reads that Queue in the parent process.          *)
(*                                                                         *)
(*   SpecGatherer  the _worker coroutines of Blocks (shared by BlocksV3    *)
(*                 and BlockTxsV3), MempoolTxs, MempoolTxsV2, MempoolTxsV3 *)
(*                 with their fetch tasks, the Semaphore and the Lock.     *)
(*   SpecTarget    the base class Target: the Gatherer process as a        *)
(*                 process, the decoder and the context manager.           *)
(*   SpecBlockTxs  the decoder of BlockTxsV3, which fans a block out into  *)
(*                 its transactions.                                       *)
(*   SpecMempoolV2 the worker of MempoolTxsV2 together with its decoder.   *)
(*   SpecBlocksFair  the worker of Blocks under the event loop's           *)
(*                 scheduling, when no request fails.                      *)
(*   SpecRpcBlocks get_blocks_from_rpc, the generator of advanced/ that    *)
(*                 follows nextblockhash through a queue of hashes.        *)
(*   SpecFraming   the decoders of Blocks and of MempoolTxsV2 on payloads  *)
(*                 that hold the bytes of a marker.                        *)
(*                                                                         *)
(* and the scan functions of bobs/obs/scan.py with their helpers:          *)
(*                                                                         *)
(*   SpecScan      scan_blocks and scan_mem over the fetch tasks of        *)
(*                 iterate_blocks and iterate_mem_txs (generators.py).     *)
(*   SpecFilter    the filtering step of a scan on one block.              *)
(*   SpecRange     parse_start_and_end (bobs/obs/utils.py).                *)
(*   SpecCandidate the derived attributes and match_criterion of a         *)
(*                 candidate (bobs/obs/candidates.py).                     *)
(*                                                                         *)
(* Bytes are sequences of byte values.                                     *)
(***************************************************************************)
EXTENDS Integers, Sequences, FiniteSets, TLC

\* ---------------------------------------------------------------- bounds
\* Heights of a block range are drawn from 1..MaxHeight, the txids of a
\* mempool snapshot from 1..MaxTx.
MaxHeight == 4
MaxTx == 3
\* A response body arrives in at most MaxChunks chunks.
MaxChunks == 1
\* A mempool transaction has 1..MaxVin inputs.
MaxVin == 2
\* SpecTarget: the worker of a Target puts at most MaxFeed entries.
MaxFeed == 3

\* ------------------------------------------------------ program constants
\* sem = Semaphore(3)
SemPermits == 3
\* _TIMEOUT: seconds the parent waits in join() before it kills the gatherer
TIMEOUT == 3

Ids == 1..(IF MaxHeight > MaxTx THEN MaxHeight ELSE MaxTx)

\* b'' and b'END'
EndOfItem == <<>>
EndOfStream == <<69, 78, 68>>

\* The k-th chunk of the response body for item h: two bytes, the ASCII
\* digits of h and k.
Chunk(h, k) == <<48 + h, 48 + k>>

\* int.to_bytes(length, byteorder='little')
RECURSIVE ToBytes(_, _)
ToBytes(n, length) ==
    IF length = 0 THEN <<>> ELSE <<n % 256>> \o ToBytes(n \div 256, length - 1)

\* The `height` and `time` fields of a mempool snapshot entry.
MempoolHeight(txid) == 800 + txid
MempoolTime(txid) == 1700000000 + txid

Kinds == {"Blocks", "MempoolTxs", "MempoolTxsV2", "MempoolTxsV3"}

VARIABLES
    \* --- the gatherer process (SpecGatherer)
    kind,           \* which Target subclass the _worker belongs to
    start_height,   \* Blocks._start_height
    end_height,     \* Blocks._end_height
    mempool,        \* keys of the snapshot returned by get_mempool(True)
    worker,         \* where _worker is
    task,           \* task[h]: where the fetch task of height / txid h is
    sent,           \* sent[h]: chunks of h (0: the worker itself) relayed
    utxo_req,       \* utxo_req[h]: get_utxos requests of task h in flight
    tx_req,         \* tx_req[h]: fallback get_tx requests of task h in flight
    sem,            \* free permits of the Semaphore
    lock,           \* holder of the Lock (0: free)
    result_queue,   \* everything put on _result_queue so far, in order
    put_by,         \* put_by[i]: the task (0: the worker) that put entry i
    \* --- the Target in the parent process (SpecTarget)
    feed,           \* what the worker is still going to put, in order
    gatherer,       \* the Gatherer process: "alive" or "dead"
    mode,           \* the query surface the caller uses: candidates or next
    call,           \* the call the caller is inside of ("idle": none)
    gen,            \* the _get_buffers generator behind `candidates`
    buffer,         \* the local `buffer` of the running _get_buffers
    read,           \* every chunk _result_queue.get() has returned, in order
    yielded,        \* every buffer a _get_buffers generator has yielded
    out,            \* what the caller has been handed, in order
    scope,          \* where the caller is: in the `with` block, in _stop, left
    left_by,        \* how the `with` block was left
    clock,          \* seconds waited in join(self._TIMEOUT)
    closed,         \* _result_queue.close() was called
    term_sent,      \* _gatherer.terminate() was called
    killed,         \* _gatherer.kill() was called
    \* --- the decoder of BlockTxsV3 (SpecBlockTxs)
    block,          \* the local `block` of _get_raw_candidates
    tx_pos,         \* how many transactions of `block` have been yielded
    \* --- a scan (SpecScan)
    scan,           \* the function called: scan_blocks or scan_mem
    pc,             \* where the scan is
    scan_args,      \* the `start` and `end` the scan is called with
    chain_info,     \* what rest.get_chain_info() returns
    memory_limit,   \* settings['limits']['memory_limit']
    match_all,      \* settings['filtering']['match_all']
    filters,        \* the *filters of the call
    fetch,          \* fetch[h]: where the fetch task of height / txid h is
    mem_checks,     \* mem_checks[h]: memory.percent in each check_memory of task h
    requests,       \* requests[h]: requests task h has issued
    permits,        \* free permits of the Semaphore of the generator
    done,           \* the generator's `done` not yet yielded
    gen_pending,    \* the generator's `pending`
    pending,        \* the scan's `pending`
    block_done,     \* the scan's `block_done` / `tx_done` (0: none yet)
    to_cancel,      \* tasks the cleanup loop has still to visit
    result,         \* the scan's `result`
    handed,         \* every task the generator has yielded, in order
    printed,        \* the title print_error was called with ("": not called)
    returned,       \* what the call returned
    \* --- the filtering step (SpecFilter; match_all and filters as above)
    txs,            \* block['tx']
    applied,        \* the filtering functions applied so far
    kept,           \* kept[f]: what filtering function f has yielded
    \* --- parse_start_and_end (SpecRange)
    start,          \* argument `start`
    end,            \* argument `end`
    info,           \* argument `info`
    force,          \* argument `force`
    resolved,       \* what the call returned or raised
    \* --- the attributes of a candidate (SpecCandidate)
    raw_data,       \* raw_data of the candidate
    answer,         \* the attribute or method asked for, and what it gave
    evals,          \* what the criterion has been called on, in order
    \* --- get_blocks_from_rpc (SpecRpcBlocks)
    rpc_args,       \* start, end and max_concurrency of the call, and the tip
    iter_pc,        \* where the generator is
    hash_tasks,     \* heights whose getblockhash task has not been awaited
    first_batch_blockhashes,    \* the list of that name
    hashes_queue,   \* the Queue of that name
    block_tasks,    \* block_tasks[k]: where the k-th get_block task is
    completed,      \* get_block tasks done and not yet yielded, in order
    blocks_yielded  \* the heights of the blocks yielded, in order

gvars == <<kind, start_height, end_height, mempool, worker, task, sent,
           utxo_req, tx_req, sem, lock, result_queue, put_by>>

tvars == <<feed, gatherer, mode, call, gen, buffer, read, yielded, out, scope,
           left_by, clock, closed, term_sent, killed>>

bvars == <<block, tx_pos>>

svars == <<scan, pc, scan_args, chain_info, memory_limit, fetch, mem_checks,
           requests, permits, done, gen_pending, pending, block_done,
           to_cancel, result, handed, printed, returned>>

fvars == <<match_all, filters, txs, applied, kept>>

rvars == <<start, end, info, force, resolved>>

cvars == <<raw_data, answer, evals>>

ivars == <<rpc_args, iter_pc, hash_tasks, first_batch_blockhashes, hashes_queue,
           block_tasks, completed, blocks_yielded>>

\* the variables of the scan functions and of the candidates
xvars == <<svars, fvars, rvars, cvars, ivars>>

vars == <<gvars, tvars, bvars, xvars>>

\* ---- a part of the program that is not running: its variables at rest
\* no block is being fanned out
NoBlock == [height |-> 0, time |-> 0, tx |-> <<>>]

NoBlockTxs ==
    /\ block = NoBlock
    /\ tx_pos = 0

\* parse_start_and_end has not returned
NotResolved == [raises |-> "not called", start |-> 0, end |-> 0]

NoScan ==
    /\ scan = ""
    /\ pc = ""
    /\ scan_args = [start |-> 0, end |-> 0]
    /\ chain_info = [blocks |-> 0, pruned |-> FALSE]
    /\ memory_limit = 0
    /\ fetch = [h \in Ids |-> "none"]
    /\ mem_checks = [h \in Ids |-> <<>>]
    /\ requests = [h \in Ids |-> 0]
    /\ permits = 0
    /\ done = {}
    /\ gen_pending = {}
    /\ pending = {}
    /\ block_done = 0
    /\ to_cancel = {}
    /\ result = <<>>
    /\ handed = <<>>
    /\ printed = ""
    /\ returned = <<>>

NoFilter ==
    /\ match_all = FALSE
    /\ filters = <<>>
    /\ txs = <<>>
    /\ applied = {}
    /\ kept = [f \in {} |-> <<>>]

NoRange ==
    /\ start = 0
    /\ end = 0
    /\ info = [blocks |-> 0, pruned |-> FALSE]
    /\ force = FALSE
    /\ resolved = NotResolved

\* no attribute of the candidate has been asked for
NotAsked == [attr |-> "", id |-> "", raises |-> "", val |-> 0]

NoCandidate ==
    /\ raw_data = [vin |-> <<>>, vout |-> <<>>, vsize |-> 1]
    /\ answer = NotAsked
    /\ evals = <<>>

\* get_blocks_from_rpc has not been called
NoIter ==
    /\ rpc_args = [start |-> 0, end |-> 0, max_concurrency |-> 0, tip |-> 0]
    /\ iter_pc = ""
    /\ hash_tasks = {}
    /\ first_batch_blockhashes = <<>>
    /\ hashes_queue = <<>>
    /\ block_tasks = <<>>
    /\ completed = <<>>
    /\ blocks_yielded = <<>>

\* self._result_queue.put_nowait(...) for each of `entries`, by task `who`
PutNowait(entries, who) ==
    /\ result_queue' = result_queue \o entries
    /\ put_by' = put_by \o [i \in 1..Len(entries) |-> who]

\* range(self._start_height, self._end_height + 1)
Heights == start_height..end_height

\* The ids a fetch task was created for.
Work == IF kind = "Blocks" THEN Heights ELSE mempool

SemFreeAlways == TRUE

\* Semaphore.acquire() does not wait
SemFree == sem > 0

LockFreeAlways == TRUE

\* Lock.acquire() does not wait
LockFree == lock = 0

AllDoneEarly == TRUE

\* gather(*tasks) returns: every task has finished without an exception
AllDone == \A h \in Work : task[h] = "done"

\* gather(*tasks) raises: some task has raised
SomeFailed == \E h \in Work : task[h] = "failed"

Running == worker \in {"get_mempool", "get_chunks", "stream", "gather"}

\* ------------------------------------------------------------ Blocks._worker
InitBlocks ==
    /\ kind = "Blocks"
    /\ start_height \in 1..MaxHeight
    /\ end_height \in (start_height - 1)..MaxHeight
    /\ mempool = {}
    /\ worker = "gather"
    /\ task = [h \in Ids |-> IF h \in Heights THEN "new" ELSE "none"]

\* async with sem: ... await rest.get_blockhash(height)
\* The tasks are created in height order and first run in that order, and the
\* Semaphore wakes its waiters first come first served: permits are taken in
\* height order.
BlockAcquire(h) ==
    /\ kind = "Blocks" /\ Running
    /\ task[h] = "new"
    /\ \A g \in Heights : g < h => task[g] # "new"
    /\ SemFree
    /\ sem' = sem - 1
    /\ task' = [task EXCEPT ![h] = "get_blockhash"]
    /\ UNCHANGED <<tvars, bvars, xvars>>
    /\ UNCHANGED <<kind, start_height, end_height, mempool, worker, sent,
                   utxo_req, tx_req, lock, result_queue, put_by>>

\* get_blockhash answered: await rest.get_chunks(self._API, blockhash)
BlockHashOk(h) ==
    /\ kind = "Blocks" /\ Running
    /\ task[h] = "get_blockhash"
    /\ task' = [task EXCEPT ![h] = "get_chunks"]
    /\ UNCHANGED <<tvars, bvars, xvars>>
    /\ UNCHANGED <<kind, start_height, end_height, mempool, worker, sent,
                   utxo_req, tx_req, sem, lock, result_queue, put_by>>

\* get_chunks answered with a success status: async with lock
BlockChunksOk(h) ==
    /\ kind = "Blocks" /\ Running
    /\ task[h] = "get_chunks"
    /\ IF LockFree
         THEN /\ lock' = h
              /\ task' = [task EXCEPT ![h] = "stream"]
         ELSE /\ lock' = lock
              /\ task' = [task EXCEPT ![h] = "lock"]
    /\ UNCHANGED <<tvars, bvars, xvars>>
    /\ UNCHANGED <<kind, start_height, end_height, mempool, worker, sent,
                   utxo_req, tx_req, sem, result_queue, put_by>>

\* a task waiting in lock.acquire() gets the Lock
BlockLock(h) ==
    /\ kind = "Blocks" /\ Running
    /\ task[h] = "lock"
    /\ LockFree
    /\ lock' = h
    /\ task' = [task EXCEPT ![h] = "stream"]
    /\ UNCHANGED <<tvars, bvars, xvars>>
    /\ UNCHANGED <<kind, start_height, end_height, mempool, worker, sent,
                   utxo_req, tx_req, sem, result_queue, put_by>>

\* async for chunk in stream: self._result_queue.put_nowait(chunk)
BlockChunk(h) ==
    /\ kind = "Blocks" /\ Running
    /\ task[h] = "stream"
    /\ sent[h] < MaxChunks
    /\ sent' = [sent EXCEPT ![h] = @ + 1]
    /\ PutNowait(<<Chunk(h, sent[h] + 1)>>, h)
    /\ UNCHANGED <<tvars, bvars, xvars>>
    /\ UNCHANGED <<kind, start_height, end_height, mempool, worker, task,
                   utxo_req, tx_req, sem, lock>>

\* what a task puts when its stream is exhausted
BlockItemEnd == <<EndOfItem>>

BlockEofKeepsLock(h) ==
    /\ kind = "Blocks" /\ Running
    /\ task[h] = "stream"
    /\ PutNowait(BlockItemEnd, h)
    /\ lock' = lock
    /\ sem' = sem + 1
    /\ task' = [task EXCEPT ![h] = "done"]
    /\ UNCHANGED <<tvars, bvars, xvars>>
    /\ UNCHANGED <<kind, start_height, end_height, mempool, worker, sent,
                   utxo_req, tx_req>>

\* the stream is exhausted: put_nowait(b''), leave `async with lock` and
\* `async with sem`
BlockEof(h) ==
    /\ kind = "Blocks" /\ Running
    /\ task[h] = "stream"
    /\ PutNowait(BlockItemEnd, h)
    /\ lock' = 0
    /\ sem' = sem + 1
    /\ task' = [task EXCEPT ![h] = "done"]
    /\ UNCHANGED <<tvars, bvars, xvars>>
    /\ UNCHANGED <<kind, start_height, end_height, mempool, worker, sent,
                   utxo_req, tx_req>>

\* a request of the task fails (connection error, or raise_for_status() on a
\* non-success status), or the body stream breaks: the exception leaves
\* `async with lock` and `async with sem`
BlockFail(h) ==
    /\ kind = "Blocks" /\ Running
    /\ task[h] \in {"get_blockhash", "get_chunks", "stream"}
    /\ lock' = IF task[h] = "stream" THEN 0 ELSE lock
    /\ sem' = sem + 1
    /\ task' = [task EXCEPT ![h] = "failed"]
    /\ UNCHANGED <<tvars, bvars, xvars>>
    /\ UNCHANGED <<kind, start_height, end_height, mempool, worker, sent,
                   utxo_req, tx_req, result_queue, put_by>>

\* --------------------------------------------------------- MempoolTxs._worker
InitMempoolTxs ==
    /\ kind = "MempoolTxs"
    /\ start_height = 1
    /\ end_height = 0
    /\ mempool = {}
    /\ worker = "get_chunks"
    /\ task = [h \in Ids |-> "none"]

\* await rest.get_chunks(RestApi.MEMPOOL_CONTENT) answered with a success status
MempoolChunksOk ==
    /\ kind = "MempoolTxs"
    /\ worker = "get_chunks"
    /\ worker' = "stream"
    /\ UNCHANGED <<tvars, bvars, xvars>>
    /\ UNCHANGED <<kind, start_height, end_height, mempool, task, sent,
                   utxo_req, tx_req, sem, lock, result_queue, put_by>>

\* async for chunk in ...: self._result_queue.put_nowait(chunk)
MempoolChunk ==
    /\ kind = "MempoolTxs"
    /\ worker = "stream"
    /\ sent[0] < MaxChunks
    /\ sent' = [sent EXCEPT ![0] = @ + 1]
    /\ PutNowait(<<Chunk(0, sent[0] + 1)>>, 0)
    /\ UNCHANGED <<tvars, bvars, xvars>>
    /\ UNCHANGED <<kind, start_height, end_height, mempool, worker, task,
                   utxo_req, tx_req, sem, lock>>

\* what MempoolTxs._worker puts after the last chunk, before it returns
MempoolTxsTail == <<EndOfItem>>

\* the stream is exhausted: put_nowait(b''), and _worker returns
MempoolEof ==
    /\ kind = "MempoolTxs"
    /\ worker = "stream"
    /\ PutNowait(MempoolTxsTail, 0)
    /\ worker' = "returned"
    /\ UNCHANGED <<tvars, bvars, xvars>>
    /\ UNCHANGED <<kind, start_height, end_height, mempool, task, sent,
                   utxo_req, tx_req, sem, lock>>

\* the request or the stream fails: the exception leaves _worker
MempoolFail ==
    /\ kind = "MempoolTxs"
    /\ worker \in {"get_chunks", "stream"}
    /\ worker' = "raised"
    /\ sent' = [h \in {0} \cup Ids |-> 0]
    /\ UNCHANGED <<tvars, bvars, xvars>>
    /\ UNCHANGED <<kind, start_height, end_height, mempool, task,
                   utxo_req, tx_req, sem, lock, result_queue, put_by>>

\* ------------------------------- MempoolTxsV2._worker, MempoolTxsV3._worker
InitMempoolTxsV2 ==
    /\ kind \in {"MempoolTxsV2", "MempoolTxsV3"}
    /\ start_height = 1
    /\ end_height = 0
    /\ mempool = {}
    /\ worker = "get_mempool"
    /\ task = [h \in Ids |-> "none"]

\* await rest.get_mempool(True) answered with n transactions: one task each
GetMempoolOk(n) ==
    /\ kind \in {"MempoolTxsV2", "MempoolTxsV3"}
    /\ worker = "get_mempool"
    /\ mempool' = 1..n
    /\ task' = [h \in Ids |-> IF h \in 1..n THEN "new" ELSE "none"]
    /\ worker' = "gather"
    /\ UNCHANGED <<tvars, bvars, xvars>>
    /\ UNCHANGED <<kind, start_height, end_height, sent, utxo_req, tx_req,
                   sem, lock, result_queue, put_by>>

\* rest.get_mempool(True) fails: the exception leaves _worker
GetMempoolFail ==
    /\ kind \in {"MempoolTxsV2", "MempoolTxsV3"}
    /\ worker = "get_mempool"
    /\ worker' = "raised"
    /\ UNCHANGED <<tvars, bvars, xvars>>
    /\ UNCHANGED <<kind, start_height, end_height, mempool, task, sent,
                   utxo_req, tx_req, sem, lock, result_queue, put_by>>

\* async with sem: await rest.get_bytes(RestApi.TX, txid)  (V2)
\*                 await rest.get_tx(txid)                 (V3)
TxAcquire(h) ==
    /\ kind \in {"MempoolTxsV2", "MempoolTxsV3"} /\ Running
    /\ task[h] = "new"
    /\ \A g \in mempool : g < h => task[g] # "new"
    /\ SemFree
    /\ sem' = sem - 1
    /\ task' = [task EXCEPT ![h] = IF kind = "MempoolTxsV2" THEN "get_bytes"
                                   ELSE "get_tx"]
    /\ UNCHANGED <<tvars, bvars, xvars>>
    /\ UNCHANGED <<kind, start_height, end_height, mempool, worker, sent,
                   utxo_req, tx_req, lock, result_queue, put_by>>

TxV2EntriesTimeFirst(h) ==
    <<Chunk(h, 1), ToBytes(MempoolTime(h), 8), ToBytes(MempoolHeight(h), 3)>>

\* the three entries MempoolTxsV2.task puts for one transaction
TxV2Entries(h) ==
    <<Chunk(h, 1), ToBytes(MempoolHeight(h), 3), ToBytes(MempoolTime(h), 8)>>

\* get_bytes answered: the three put_nowait, and `async with sem` is left
TxBytesOk(h) ==
    /\ kind = "MempoolTxsV2" /\ Running
    /\ task[h] = "get_bytes"
    /\ PutNowait(TxV2Entries(h), h)
    /\ sem' = sem + 1
    /\ task' = [task EXCEPT ![h] = "done"]
    /\ UNCHANGED <<tvars, bvars, xvars>>
    /\ UNCHANGED <<kind, start_height, end_height, mempool, worker, sent,
                   utxo_req, tx_req, lock>>

\* get_tx answered with a transaction of n inputs:
\* gather(*map(update_inputs, tx['vin'])) sends one get_utxos per input
TxOk(h, n) ==
    /\ kind = "MempoolTxsV3" /\ Running
    /\ task[h] = "get_tx"
    /\ task' = [task EXCEPT ![h] = "update_inputs"]
    /\ utxo_req' = [utxo_req EXCEPT ![h] = n]
    /\ UNCHANGED <<tvars, bvars, xvars>>
    /\ UNCHANGED <<kind, start_height, end_height, mempool, worker, sent,
                   tx_req, sem, lock, result_queue, put_by>>

\* update_inputs: get_utxos answered with the spent output
UtxoFound(h) ==
    /\ kind = "MempoolTxsV3" /\ Running
    /\ utxo_req[h] > 0
    /\ utxo_req' = [utxo_req EXCEPT ![h] = @ - 1]
    /\ UNCHANGED <<tvars, bvars, xvars>>
    /\ UNCHANGED <<kind, start_height, end_height, mempool, worker, task, sent,
                   tx_req, sem, lock, result_queue, put_by>>

\* update_inputs: get_utxos answered with no utxo: await rest.get_tx(...)
UtxoEmpty(h) ==
    /\ kind = "MempoolTxsV3" /\ Running
    /\ utxo_req[h] > 0
    /\ utxo_req' = [utxo_req EXCEPT ![h] = @ - 1]
    /\ tx_req' = [tx_req EXCEPT ![h] = @ + 1]
    /\ UNCHANGED <<tvars, bvars, xvars>>
    /\ UNCHANGED <<kind, start_height, end_height, mempool, worker, task, sent,
                   sem, lock, result_queue, put_by>>

\* update_inputs: the fallback get_tx answered
PrevTxOk(h) ==
    /\ kind = "MempoolTxsV3" /\ Running
    /\ tx_req[h] > 0
    /\ tx_req' = [tx_req EXCEPT ![h] = @ - 1]
    /\ UNCHANGED <<tvars, bvars, xvars>>
    /\ UNCHANGED <<kind, start_height, end_height, mempool, worker, task, sent,
                   utxo_req, sem, lock, result_queue, put_by>>

\* every update_inputs has returned: put_nowait(dumps(tx)), leave `async with sem`
TxPut(h) ==
    /\ kind = "MempoolTxsV3" /\ Running
    /\ task[h] = "update_inputs"
    /\ utxo_req[h] = 0 /\ tx_req[h] = 0
    /\ PutNowait(<<Chunk(h, 1)>>, h)
    /\ sem' = sem + 1
    /\ task' = [task EXCEPT ![h] = "done"]
    /\ UNCHANGED <<tvars, bvars, xvars>>
    /\ UNCHANGED <<kind, start_height, end_height, mempool, worker, sent,
                   utxo_req, tx_req, lock>>

\* get_bytes / get_tx of the task fails: the exception leaves `async with sem`
TxFail(h) ==
    /\ kind \in {"MempoolTxsV2", "MempoolTxsV3"} /\ Running
    /\ task[h] \in {"get_bytes", "get_tx"}
    /\ sem' = sem + 1
    /\ task' = [task EXCEPT ![h] = "failed"]
    /\ UNCHANGED <<tvars, bvars, xvars>>
    /\ UNCHANGED <<kind, start_height, end_height, mempool, worker, sent,
                   utxo_req, tx_req, lock, result_queue, put_by>>

\* a lookup of update_inputs fails: the inner gather raises in the task, which
\* leaves `async with sem`; its other lookups are not cancelled
LookupFail(h) ==
    /\ kind = "MempoolTxsV3" /\ Running
    /\ utxo_req[h] + tx_req[h] > 0
    /\ \/ /\ utxo_req[h] > 0
          /\ utxo_req' = [utxo_req EXCEPT ![h] = @ - 1]
          /\ tx_req' = tx_req
       \/ /\ tx_req[h] > 0
          /\ tx_req' = [tx_req EXCEPT ![h] = @ - 1]
          /\ utxo_req' = utxo_req
    /\ IF task[h] = "update_inputs"
         THEN /\ task' = [task EXCEPT ![h] = "failed"]
              /\ sem' = sem + 1
         ELSE UNCHANGED <<task, sem>>
    /\ UNCHANGED <<tvars, bvars, xvars>>
    /\ UNCHANGED <<kind, start_height, end_height, mempool, worker, sent,
                   lock, result_queue, put_by>>

\* ------------------------------------------------------- the end of _worker
\* await gather(*tasks) returns, `async with Rest` is left, and
\* self._result_queue.put_nowait(b'END')
GatherDone ==
    /\ worker = "gather"
    /\ AllDone
    /\ PutNowait(<<EndOfStream>>, 0)
    /\ worker' = "returned"
    /\ UNCHANGED <<tvars, bvars, xvars>>
    /\ UNCHANGED <<kind, start_height, end_height, mempool, task, sent,
                   utxo_req, tx_req, sem, lock>>

\* await gather(*tasks) raises the first exception of a task. The other
\* tasks are not cancelled: they go on while Rest.__aexit__ awaits close(),
\* until the exception leaves _worker, asyncio.run() cancels what is left and
\* the process ends without b'END'. The event loop's state dies with it.
WorkerRaise ==
    /\ worker = "gather"
    /\ SomeFailed
    /\ worker' = "raised"
    /\ task' = [h \in Ids |-> IF task[h] = "none" THEN "none" ELSE "over"]
    /\ sent' = [h \in {0} \cup Ids |-> 0]
    /\ utxo_req' = [h \in Ids |-> 0]
    /\ tx_req' = [h \in Ids |-> 0]
    /\ sem' = SemPermits
    /\ lock' = 0
    /\ UNCHANGED <<tvars, bvars, xvars>>
    /\ UNCHANGED <<kind, start_height, end_height, mempool, result_queue, put_by>>

InitGatherer ==
    /\ \/ InitBlocks
       \/ InitMempoolTxs
       \/ InitMempoolTxsV2
    /\ sent = [h \in {0} \cup Ids |-> 0]
    /\ utxo_req = [h \in Ids |-> 0]
    /\ tx_req = [h \in Ids |-> 0]
    /\ sem = SemPermits
    /\ lock = 0
    /\ result_queue = <<>>
    /\ put_by = <<>>
    /\ feed = <<>>
    /\ gatherer = "alive"
    /\ mode = "candidates"
    /\ call = "idle"
    /\ gen = "suspended"
    /\ buffer = <<>>
    /\ read = <<>>
    /\ yielded = <<>>
    /\ out = <<>>
    /\ scope = "with"
    /\ left_by = "none"
    /\ clock = 0
    /\ closed = FALSE
    /\ term_sent = FALSE
    /\ killed = FALSE
    /\ NoBlockTxs /\ NoScan /\ NoFilter /\ NoRange /\ NoCandidate /\ NoIter

NextGatherer ==
    \/ \E h \in Ids : BlockAcquire(h)
    \/ \E h \in Ids : BlockHashOk(h)
    \/ \E h \in Ids : BlockChunksOk(h)
    \/ \E h \in Ids : BlockLock(h)
    \/ \E h \in Ids : BlockChunk(h)
    \/ \E h \in Ids : BlockEof(h)
    \/ \E h \in Ids : BlockFail(h)
    \/ MempoolChunksOk
    \/ MempoolChunk
    \/ MempoolEof
    \/ MempoolFail
    \/ \E n \in 0..MaxTx : GetMempoolOk(n)
    \/ GetMempoolFail
    \/ \E h \in Ids : TxAcquire(h)
    \/ \E h \in Ids : TxBytesOk(h)
    \/ \E h \in Ids, n \in 1..MaxVin : TxOk(h, n)
    \/ \E h \in Ids : UtxoFound(h)
    \/ \E h \in Ids : UtxoEmpty(h)
    \/ \E h \in Ids : PrevTxOk(h)
    \/ \E h \in Ids : TxPut(h)
    \/ \E h \in Ids : TxFail(h)
    \/ \E h \in Ids : LookupFail(h)
    \/ GatherDone
    \/ WorkerRaise

SpecGatherer == InitGatherer /\ [][NextGatherer]_vars

\* ================================================================== Target
\* The base class: _worker is abstract, so the worker of SpecTarget puts an
\* arbitrary sequence of entries, and may return, raise or never finish.

BoundedSeq(S, n) == UNION {[1..k -> S] : k \in 0..n}

\* the entries a worker may put: the two markers and two one-byte chunks,
\* b'1' and b'2'
Alphabet == {EndOfItem, EndOfStream, <<49>>, <<50>>}

\* orjson.loads on a buffer of ASCII digits: a JSON number, or JSONDecodeError
\* (b'' is not a JSON document, nor is a number with a leading zero)
IsJson(buf) ==
    /\ Len(buf) >= 1
    /\ \A i \in 1..Len(buf) : buf[i] \in 48..57
    /\ Len(buf) > 1 => buf[1] # 48

RECURSIVE JsonNumber(_)
JsonNumber(buf) ==
    IF buf = <<>> THEN 0
    ELSE 10 * JsonNumber(SubSeq(buf, 1, Len(buf) - 1)) + (buf[Len(buf)] - 48)

\* self._CANDIDATE(loads(buffer)): what the caller gets for a yielded buffer
Candidate(buf) ==
    IF IsJson(buf) THEN [is |-> "Candidate", raw_data |-> JsonNumber(buf)]
    ELSE [is |-> "JSONDecodeError", raw_data |-> 0]

\* next(self.candidates, None) on an exhausted iterator
None == [is |-> "None", raw_data |-> 0]

InitTarget ==
    /\ kind = "Target"
    /\ start_height = 1
    /\ end_height = 0
    /\ mempool = {}
    /\ worker = "running"
    /\ task = [h \in Ids |-> "none"]
    /\ sent = [h \in {0} \cup Ids |-> 0]
    /\ utxo_req = [h \in Ids |-> 0]
    /\ tx_req = [h \in Ids |-> 0]
    /\ sem = SemPermits
    /\ lock = 0
    /\ result_queue = <<>>
    /\ put_by = <<>>
    /\ feed \in BoundedSeq(Alphabet, MaxFeed)
    /\ gatherer = "alive"
    /\ mode \in {"candidates", "next"}
    /\ call = "idle"
    /\ gen = "suspended"
    /\ buffer = <<>>
    /\ read = <<>>
    /\ yielded = <<>>
    /\ out = <<>>
    /\ scope = "with"
    /\ left_by = "none"
    /\ clock = 0
    /\ closed = FALSE
    /\ term_sent = FALSE
    /\ killed = FALSE
    /\ NoBlockTxs /\ NoScan /\ NoFilter /\ NoRange /\ NoCandidate /\ NoIter

\* ---- the Gatherer process
\* _worker: self._result_queue.put_nowait(...)
WorkerPut ==
    /\ gatherer = "alive" /\ worker = "running"
    /\ feed # <<>>
    /\ result_queue' = Append(result_queue, Head(feed))
    /\ feed' = Tail(feed)
    /\ UNCHANGED <<kind, start_height, end_height, mempool, worker, task, sent,
                   utxo_req, tx_req, sem, lock, put_by>>
    /\ UNCHANGED <<gatherer, mode, call, gen, buffer, read, yielded, out, scope,
                   left_by, clock, closed, term_sent, killed>>
    /\ UNCHANGED <<bvars, xvars>>

\* _worker returns, run() returns and the process exits
WorkerReturn ==
    /\ gatherer = "alive" /\ worker = "running"
    /\ feed = <<>>
    /\ worker' = "returned"
    /\ gatherer' = "dead"
    /\ UNCHANGED <<kind, start_height, end_height, mempool, task, sent,
                   utxo_req, tx_req, sem, lock, result_queue, put_by>>
    /\ UNCHANGED <<feed, mode, call, gen, buffer, read, yielded, out, scope,
                   left_by, clock, closed, term_sent, killed>>
    /\ UNCHANGED <<bvars, xvars>>

\* _worker raises (a fetch fails): run() raises and the process exits with
\* whatever it had still to put never put
WorkerFail ==
    /\ gatherer = "alive" /\ worker = "running"
    /\ worker' = "raised"
    /\ gatherer' = "dead"
    /\ UNCHANGED <<kind, start_height, end_height, mempool, task, sent,
                   utxo_req, tx_req, sem, lock, result_queue, put_by>>
    /\ UNCHANGED <<feed, mode, call, gen, buffer, read, yielded, out, scope,
                   left_by, clock, closed, term_sent, killed>>
    /\ UNCHANGED <<bvars, xvars>>

\* the process dies of the SIGTERM of terminate() or the SIGKILL of kill();
\* a process that never reacts to SIGTERM never takes the first disjunct
GathererSignalled ==
    /\ gatherer = "alive"
    /\ \/ term_sent
       \/ killed
    /\ worker' = "killed"
    /\ gatherer' = "dead"
    /\ UNCHANGED <<kind, start_height, end_height, mempool, task, sent,
                   utxo_req, tx_req, sem, lock, result_queue, put_by>>
    /\ UNCHANGED <<feed, mode, call, gen, buffer, read, yielded, out, scope,
                   left_by, clock, closed, term_sent, killed>>
    /\ UNCHANGED <<bvars, xvars>>

\* ---- the parent process: the decoder
\* the caller evaluates target.next: next(self.candidates, None) on a new
\* map over a new _get_buffers generator
CallNext ==
    /\ scope = "with" /\ mode = "next"
    /\ call = "idle"
    /\ call' = "next"
    /\ buffer' = <<>>
    /\ UNCHANGED <<gvars, bvars, xvars>>
    /\ UNCHANGED <<feed, gatherer, mode, gen, read, yielded, out, scope,
                   left_by, clock, closed, term_sent, killed>>

\* the caller's `for c in target.candidates` asks for the next candidate:
\* the one _get_buffers generator behind it starts, or resumes behind its
\* yield with buffer = bytearray()
CallCandidates ==
    /\ scope = "with" /\ mode = "candidates"
    /\ call = "idle"
    /\ gen = "suspended"
    /\ call' = "candidates"
    /\ buffer' = <<>>
    /\ UNCHANGED <<gvars, bvars, xvars>>
    /\ UNCHANGED <<feed, gatherer, mode, gen, read, yielded, out, scope,
                   left_by, clock, closed, term_sent, killed>>

ExtendOverwrite(buf, chunk) == chunk

\* buffer += chunk
Extend(buf, chunk) == buf \o chunk

IsEndOfStreamNever(chunk) == FALSE

\* if chunk == b'END': break
IsEndOfStream(chunk) == chunk = EndOfStream

\* one turn of the loop of _get_buffers: chunk = self._result_queue.get()
\* returns (it blocks while the queue is empty), then
\*   b''     the buffer is yielded and the caller gets its Candidate, or the
\*           JSONDecodeError of loads;
\*   b'END'  the generator ends: the for loop ends, `next` returns None;
\*   else    the chunk is added to the buffer and the loop goes on.
Get ==
    /\ scope = "with"
    /\ call # "idle"
    /\ result_queue # <<>>
    /\ LET chunk == Head(result_queue) IN
        /\ result_queue' = Tail(result_queue)
        /\ read' = Append(read, chunk)
        /\ IF chunk = EndOfItem
             THEN /\ yielded' = Append(yielded, buffer)
                  /\ out' = Append(out, Candidate(buffer))
                  /\ call' = "idle"
                  /\ UNCHANGED <<buffer, gen>>
             ELSE IF IsEndOfStream(chunk)
             THEN /\ call' = "idle"
                  /\ gen' = IF mode = "candidates" THEN "stopped" ELSE gen
                  /\ out' = IF mode = "next" THEN Append(out, None) ELSE out
                  /\ UNCHANGED <<buffer, yielded>>
             ELSE /\ buffer' = Extend(buffer, chunk)
                  /\ UNCHANGED <<call, gen, yielded, out>>
    /\ UNCHANGED <<kind, start_height, end_height, mempool, worker, task, sent,
                   utxo_req, tx_req, sem, lock, put_by>>
    /\ UNCHANGED <<feed, gatherer, mode, scope, left_by, clock, closed,
                   term_sent, killed>>
    /\ UNCHANGED <<bvars, xvars>>

\* ---- the parent process: the context manager
\* The `with` block is left: normally or by an exception of the caller's code
\* between two calls, or by a KeyboardInterrupt at any point, also inside a
\* blocked get(). __exit__ runs _stop: self._result_queue.close(),
\* self._gatherer.terminate(), and join(self._TIMEOUT) begins.
Exit(how) ==
    /\ scope = "with"
    /\ how \in {"normal", "exception"} => call = "idle"
    /\ left_by' = how
    /\ call' = "idle"
    /\ closed' = TRUE
    /\ term_sent' = TRUE
    /\ clock' = 0
    /\ scope' = "join"
    /\ UNCHANGED <<gvars, bvars, xvars>>
    /\ UNCHANGED <<feed, gatherer, mode, gen, buffer, read, yielded, out, killed>>

\* a second passes in join(self._TIMEOUT)
JoinTick ==
    /\ scope = "join"
    /\ gatherer = "alive"
    /\ clock < TIMEOUT
    /\ clock' = clock + 1
    /\ UNCHANGED <<gvars, bvars, xvars>>
    /\ UNCHANGED <<feed, gatherer, mode, call, gen, buffer, read, yielded, out,
                   scope, left_by, closed, term_sent, killed>>

\* join(self._TIMEOUT) returns: the process has ended, or the timeout is over
JoinReturn ==
    /\ scope = "join"
    /\ gatherer = "dead" \/ clock = TIMEOUT
    /\ scope' = "is_alive"
    /\ UNCHANGED <<gvars, bvars, xvars>>
    /\ UNCHANGED <<feed, gatherer, mode, call, gen, buffer, read, yielded, out,
                   left_by, clock, closed, term_sent, killed>>

IsAliveNever == FALSE

\* if self._gatherer.is_alive():
IsAlive == gatherer = "alive"

\* if self._gatherer.is_alive(): kill() and join() begins; else _stop and
\* __exit__ return
StopKill ==
    /\ scope = "is_alive"
    /\ IF IsAlive
         THEN /\ killed' = TRUE
              /\ scope' = "join_killed"
         ELSE /\ killed' = killed
              /\ scope' = "left"
    /\ UNCHANGED <<gvars, bvars, xvars>>
    /\ UNCHANGED <<feed, gatherer, mode, call, gen, buffer, read, yielded, out,
                   left_by, clock, closed, term_sent>>

\* the join() behind kill() returns: _stop and __exit__ return
JoinKilled ==
    /\ scope = "join_killed"
    /\ gatherer = "dead"
    /\ scope' = "left"
    /\ UNCHANGED <<gvars, bvars, xvars>>
    /\ UNCHANGED <<feed, gatherer, mode, call, gen, buffer, read, yielded, out,
                   left_by, clock, closed, term_sent, killed>>

NextTarget ==
    \/ WorkerPut
    \/ WorkerReturn
    \/ WorkerFail
    \/ GathererSignalled
    \/ CallNext
    \/ CallCandidates
    \/ Get
    \/ \E how \in {"normal", "exception", "interrupt"} : Exit(how)
    \/ JoinTick
    \/ JoinReturn
    \/ StopKill
    \/ JoinKilled

SpecTarget == InitTarget /\ [][NextTarget]_vars

\* ===================================================== claims, SpecGatherer
Idx == 1..Len(result_queue)

\* positions of the entries task h (0: the worker) has put
EntriesOf(h) == {i \in Idx : put_by[i] = h}

Contiguous(S) == \A i \in S, j \in S, k \in Idx : (i < k /\ k < j) => k \in S

Least(S) == CHOOSE i \in S : \A j \in S : i <= j

\* the entries of h are h's chunks 1, 2, ... in that order, with at most an
\* end-of-item marker behind them
RunInOrder(h) ==
    LET S == EntriesOf(h) IN
    \A i \in S :
        \/ result_queue[i] = Chunk(h, i - Least(S) + 1)
        \/ /\ result_queue[i] = EndOfItem
           /\ \A j \in S : j <= i

\* the entries of h are one complete item run: its chunks, then one b''
ItemRun(h) ==
    LET S == EntriesOf(h) IN
    /\ S # {}
    /\ Contiguous(S)
    /\ RunInOrder(h)
    /\ Cardinality({i \in S : result_queue[i] = EndOfItem}) = 1

\* tasks that are inside `async with sem`
Holders ==
    {h \in Ids : task[h] \in {"get_blockhash", "get_chunks", "lock", "stream",
                              "get_bytes", "get_tx", "update_inputs"}}

RECURSIVE SumOver(_, _)
SumOver(f, S) ==
    IF S = {} THEN 0
    ELSE LET x == CHOOSE y \in S : TRUE IN f[x] + SumOver(f, S \ {x})

\* transport requests sent and not yet answered
InFlight ==
    Cardinality({h \in Ids : task[h] \in {"get_blockhash", "get_chunks",
                                          "get_bytes", "get_tx"}})
    + (IF worker \in {"get_mempool", "get_chunks"} THEN 1 ELSE 0)
    + SumOver(utxo_req, Ids) + SumOver(tx_req, Ids)

\* C1: Blocks gatherer framing. When Blocks._worker has returned (every fetch
\* of the range start..end succeeded) the result queue holds, for each height
\* of the range, exactly one run made of that block's chunks in arrival order
\* and one b'' behind them, the runs in any order, so end-start+1 markers in
\* all, and then exactly one b'END' as the last entry. In every state b'END'
\* is the last entry when it is there: nothing is written after it.
C1_BlocksFraming ==
    kind = "Blocks" =>
        /\ \A i \in Idx : result_queue[i] = EndOfStream =>
               (i = Len(result_queue) /\ worker = "returned")
        /\ worker = "returned" =>
               /\ Len(result_queue) >= 1
               /\ result_queue[Len(result_queue)] = EndOfStream
               /\ EntriesOf(0) = {Len(result_queue)}
               /\ \A i \in Idx : put_by[i] \in Heights \cup {0}
               /\ \A h \in Heights : ItemRun(h)
               /\ Cardinality({i \in Idx : result_queue[i] = EndOfItem})
                      = end_height - start_height + 1

\* C1 witness: a range of at least two heights was relayed with the higher
\* height's run first, and b'END' is written.
C1_Witness ==
    /\ kind = "Blocks"
    /\ worker = "returned"
    /\ end_height > start_height
    /\ put_by[1] = end_height
    /\ \E i \in Idx : result_queue[i] = Chunk(start_height, 1)

C8_BlocksSemaphore ==
    kind = "Blocks" =>
        /\ Cardinality(Holders) <= SemPermits
        /\ sem = SemPermits - Cardinality(Holders)
        /\ \A h \in Ids : task[h] \in {"new", "none"} => EntriesOf(h) = {}

\* C8 witness: three tasks hold the permits and a fourth has not started.
C8_Witness ==
    /\ kind = "Blocks"
    /\ Cardinality(Holders) = SemPermits
    /\ sem = 0
    /\ \E h \in Heights : task[h] = "new"

\* C6: every Target kind's gatherer writes b'END' behind its items: when
\* _worker has returned, the last entry of the result queue is b'END'.
C6_EndOfStreamWritten ==
    worker = "returned" =>
        /\ Len(result_queue) >= 1
        /\ result_queue[Len(result_queue)] = EndOfStream

\* C9: in the mempool gatherers the transport requests in flight, the
\* per-input get_utxos / get_tx lookups counted, never exceed the limit.
C9_RequestsBounded ==
    kind = "MempoolTxsV3" => InFlight <= SemPermits

\* ======================================================= claims, SpecTarget
RECURSIVE Flatten(_)
Flatten(chunks) ==
    IF chunks = <<>> THEN <<>> ELSE Head(chunks) \o Flatten(Tail(chunks))

\* positions of the end-of-item markers read so far
Marks == {i \in 1..Len(read) : read[i] = EndOfItem}

\* the k-th of them
Mark(k) == CHOOSE p \in Marks : Cardinality({q \in Marks : q <= p}) = k

\* the last marker of either kind read before position p (0: none)
MarkerBefore(p) ==
    LET M == {q \in 1..(p - 1) : read[q] \in {EndOfItem, EndOfStream}} IN
    IF M = {} THEN 0 ELSE CHOOSE q \in M : \A r \in M : r <= q

EndRead == \E i \in 1..Len(read) : read[i] = EndOfStream

\* C3: decoder buffer reassembly. Whatever has been put, _get_buffers has
\* yielded exactly one buffer per end-of-item marker read, in the order the
\* markers were read (none before its marker), and the buffer of a marker is
\* the concatenation, in order, of the chunks read between the marker before
\* it and itself, however many chunks the item came in.
C3_BufferReassembly ==
    /\ Len(yielded) = Cardinality(Marks)
    /\ \A k \in 1..Len(yielded) :
           yielded[k] = Flatten(SubSeq(read, MarkerBefore(Mark(k)) + 1, Mark(k) - 1))

\* C3 witness: an item that came in two chunks was yielded as one buffer.
C3_Witness ==
    /\ Len(yielded) >= 1
    /\ Len(yielded[Len(yielded)]) = 2
    /\ Len(read) = 3

\* C4: when the generator behind `candidates` reads b'END' it ends at once:
\* b'END' is the last chunk it has read, chunks read behind the last b'' are
\* dropped with it (the buffers yielded are still one per b'' read), and the
\* generator, being ended, is never resumed, so nothing is yielded after.
C4_EndOfStreamEnds ==
    (mode = "candidates" /\ EndRead) =>
        /\ gen = "stopped"
        /\ call = "idle"
        /\ read[Len(read)] = EndOfStream
        /\ Len(yielded) = Cardinality(Marks)
        /\ \A k \in 1..Len(yielded) : Mark(k) < Len(read)

\* C4 witness: the generator ended on b'END' with a chunk not yet terminated
\* in its buffer, and with entries still on the queue.
C4_Witness ==
    /\ mode = "candidates"
    /\ gen = "stopped"
    /\ buffer # <<>>
    /\ result_queue # <<>>

\* C5: a gatherer that has exited on a failure before it put b'END' does not
\* leave the caller waiting forever: no call of `candidates` or `next` is then
\* inside get() on an empty queue that nothing will ever be put on.
C5_FailureDoesNotBlock ==
    (worker = "raised" /\ ~EndRead) =>
        ~(scope = "with" /\ call # "idle" /\ result_queue = <<>>)

\* C7: scoped release. However the `with` block is left, __exit__ has closed
\* the queue and sent terminate(); kill() is sent only behind a join() that
\* timed out after _TIMEOUT seconds; and once __exit__ has returned the
\* gatherer process is not alive, whether or not it reacted to terminate().
C7_ScopedRelease ==
    /\ scope # "with" => (left_by # "none" /\ closed /\ term_sent)
    /\ killed => clock = TIMEOUT
    /\ scope = "left" => gatherer = "dead"

\* C7 witness: the block was left by an exception, the gatherer did not react
\* to terminate(), was killed after the timeout, and __exit__ has returned.
C7_Witness ==
    /\ scope = "left"
    /\ left_by = "exception"
    /\ killed
    /\ worker = "killed"

\* C10: Target.next never blocks once the stream has ended: a call of `next`
\* made after an earlier call has consumed b'END', the worker having returned,
\* finds something to return (None) instead of waiting on the empty queue.
C10_NextAfterEndReturns ==
    (mode = "next" /\ EndRead /\ worker = "returned" /\ scope = "with") =>
        ~(call = "next" /\ result_queue = <<>>)

\* ===================================================== parse_start_and_end
\* SpecRange: the tip of the chain is in 0..MaxTip, a negative `start` in
\* -MaxBack..-1.
MaxTip == 3
MaxBack == 4

\* an argument that is an int, and one that is not (a str)
IntArg(n) == [isint |-> TRUE, val |-> n]
NotInt == [isint |-> FALSE, val |-> 0]

ReturnsSwapped(s, e) == [raises |-> "", start |-> e, end |-> s]

\* `raise E`, and `return start, end`
Raises(e) == [raises |-> e, start |-> 0, end |-> 0]
Returns(s, e) == [raises |-> "", start |-> s, end |-> e]

NegativeStartShort(s, e, block_count) ==
    IF e = 0 THEN <<block_count + s, block_count>>
    ELSE LET first == block_count + s
             potential_end == first + e - 1
         IN  <<first, IF potential_end <= block_count THEN potential_end
                      ELSE block_count>>

\* if start < 0: the start height is abs(start) blocks in the past
NegativeStart(s, e, block_count) ==
    IF e = 0 THEN <<block_count + s + 1, block_count>>
    ELSE LET first == block_count + s + 1
             potential_end == first + e - 1
         IN  <<first, IF potential_end <= block_count THEN potential_end
                      ELSE block_count>>

\* if info['pruned'] is True: ... return start, end
PruneCheckForced(s, e, chaininfo, forced) ==
    IF chaininfo.pruned = TRUE
    THEN IF "pruneheight" \notin DOMAIN chaininfo THEN Raises("KeyError")
         ELSE IF e < chaininfo.pruneheight THEN Raises("ValueError")
         ELSE IF s < chaininfo.pruneheight
              THEN Returns(chaininfo.pruneheight, e)
              ELSE Returns(s, e)
    ELSE Returns(s, e)

PruneCheckNoClamp(s, e, chaininfo, forced) ==
    IF chaininfo.pruned = TRUE
    THEN IF "pruneheight" \notin DOMAIN chaininfo THEN Raises("KeyError")
         ELSE IF e < chaininfo.pruneheight THEN Raises("ValueError")
         ELSE IF s < chaininfo.pruneheight
              THEN IF forced THEN Returns(s, e)
                   ELSE Raises("ValueError")
              ELSE Returns(s, e)
    ELSE Returns(s, e)

PruneCheckEndRescued(s, e, chaininfo, forced) ==
    IF chaininfo.pruned = TRUE
    THEN IF "pruneheight" \notin DOMAIN chaininfo THEN Raises("KeyError")
         ELSE IF e < chaininfo.pruneheight /\ ~forced THEN Raises("ValueError")
         ELSE IF s < chaininfo.pruneheight
              THEN IF forced
                   THEN Returns(chaininfo.pruneheight,
                                IF e < chaininfo.pruneheight
                                THEN chaininfo.pruneheight ELSE e)
                   ELSE Raises("ValueError")
              ELSE Returns(s, e)
    ELSE Returns(s, e)

PruneCheck(s, e, chaininfo, forced) ==
    IF chaininfo.pruned = TRUE
    THEN IF "pruneheight" \notin DOMAIN chaininfo THEN Raises("KeyError")
         ELSE IF e < chaininfo.pruneheight THEN Raises("ValueError")
         ELSE IF s < chaininfo.pruneheight
              THEN IF forced THEN Returns(chaininfo.pruneheight, e)
                   ELSE Raises("ValueError")
              ELSE Returns(s, e)
    ELSE Returns(s, e)

\* the start height, once resolved, compared with `end` as given
parse_start_and_end_late_order(first, last, chaininfo, forced) ==
    IF ~first.isint THEN Raises("TypeError")
    ELSE IF ~last.isint THEN Raises("TypeError")
    ELSE IF last.val < 0 THEN Raises("ValueError")
    ELSE IF "pruned" \notin DOMAIN chaininfo \/ "blocks" \notin DOMAIN chaininfo
         THEN Raises("ValueError")
    ELSE IF first.val > chaininfo.blocks THEN Raises("ValueError")
    ELSE IF last.val > chaininfo.blocks THEN Raises("ValueError")
    ELSE LET r == IF first.val < 0
                  THEN NegativeStart(first.val, last.val, chaininfo.blocks)
                  ELSE <<first.val, last.val>>
         IN  IF r[1] > last.val THEN Raises("ValueError")
             ELSE PruneCheck(r[1], r[2], chaininfo, forced)

\* bobs/obs/utils.py
parse_start_and_end(first, last, chaininfo, forced) ==
    IF ~first.isint THEN Raises("TypeError")
    ELSE IF ~last.isint THEN Raises("TypeError")
    ELSE IF last.val < 0 THEN Raises("ValueError")
    ELSE IF first.val > last.val THEN Raises("ValueError")
    ELSE IF "pruned" \notin DOMAIN chaininfo \/ "blocks" \notin DOMAIN chaininfo
         THEN Raises("ValueError")
    ELSE IF first.val > chaininfo.blocks THEN Raises("ValueError")
    ELSE IF last.val > chaininfo.blocks THEN Raises("ValueError")
    ELSE LET r == IF first.val < 0
                  THEN NegativeStart(first.val, last.val, chaininfo.blocks)
                  ELSE <<first.val, last.val>>
         IN  PruneCheck(r[1], r[2], chaininfo, forced)

\* bobs/obs/obs_utils.py, the revision scan.py imports: no check against the
\* tip, and 'blocks' is looked up only for a negative start
obs_utils_parse_start_and_end(first, last, chaininfo, forced) ==
    IF ~first.isint THEN Raises("TypeError")
    ELSE IF ~last.isint THEN Raises("TypeError")
    ELSE IF last.val < 0 THEN Raises("ValueError")
    ELSE IF first.val > last.val THEN Raises("ValueError")
    ELSE IF "pruned" \notin DOMAIN chaininfo THEN Raises("ValueError")
    ELSE IF first.val < 0 /\ "blocks" \notin DOMAIN chaininfo
         THEN Raises("ValueError")
    ELSE LET r == IF first.val < 0
                  THEN NegativeStart(first.val, last.val, chaininfo.blocks)
                  ELSE <<first.val, last.val>>
         IN  PruneCheck(r[1], r[2], chaininfo, forced)

\* getblockchaininfo of an unpruned and of a pruned node, and malformed ones
Unpruned(tip) == [blocks |-> tip, pruned |-> FALSE]
Pruned(tip, pruneheight) ==
    [blocks |-> tip, pruned |-> TRUE, pruneheight |-> pruneheight]

Infos ==
    {Unpruned(t) : t \in 0..MaxTip}
    \cup {Pruned(t, p) : t \in 0..MaxTip, p \in 0..MaxTip}
    \cup {[blocks |-> t] : t \in 0..MaxTip}
    \cup {[pruned |-> b] : b \in BOOLEAN}
    \cup {[blocks |-> t, pruned |-> TRUE] : t \in 0..MaxTip}

InitRange ==
    /\ start \in {IntArg(n) : n \in (-MaxBack)..(MaxTip + 1)} \cup {NotInt}
    /\ end \in {IntArg(n) : n \in (-1)..(MaxTip + 1)} \cup {NotInt}
    /\ info \in Infos
    /\ force \in BOOLEAN
    /\ resolved = NotResolved
    /\ kind = "none"
    /\ start_height = 1
    /\ end_height = 0
    /\ mempool = {}
    /\ worker = "none"
    /\ task = [h \in Ids |-> "none"]
    /\ sent = [h \in {0} \cup Ids |-> 0]
    /\ utxo_req = [h \in Ids |-> 0]
    /\ tx_req = [h \in Ids |-> 0]
    /\ sem = SemPermits
    /\ lock = 0
    /\ result_queue = <<>>
    /\ put_by = <<>>
    /\ feed = <<>>
    /\ gatherer = "dead"
    /\ mode = "candidates"
    /\ call = "idle"
    /\ gen = "suspended"
    /\ buffer = <<>>
    /\ read = <<>>
    /\ yielded = <<>>
    /\ out = <<>>
    /\ scope = "left"
    /\ left_by = "none"
    /\ clock = 0
    /\ closed = FALSE
    /\ term_sent = FALSE
    /\ killed = FALSE
    /\ NoBlockTxs /\ NoScan /\ NoFilter /\ NoCandidate /\ NoIter

\* start, end = parse_start_and_end(start, end, info, force)
Resolve ==
    /\ resolved = NotResolved
    /\ resolved' = parse_start_and_end(start, end, info, force)
    /\ UNCHANGED <<start, end, info, force>>
    /\ UNCHANGED <<gvars, tvars, bvars, svars, fvars, cvars, ivars>>

NextRange ==
    \/ Resolve

SpecRange == InitRange /\ [][NextRange]_vars

\* ------------------------------------------------------- claims, SpecRange
\* the call has returned or raised
Called == resolved # NotResolved

\* info is the chain info of an unpruned node
OnUnpruned ==
    /\ DOMAIN info = {"blocks", "pruned"}
    /\ info.pruned = FALSE

\* C20: last-N form. For every N >= 1, on an unpruned chain with tip T,
\* parse_start_and_end(-N, 0, info, force) returns (T - N + 1, T), whatever
\* force is.
C20_LastN ==
    (Called /\ OnUnpruned /\ start.isint /\ start.val <= -1 /\ end = IntArg(0))
        => resolved = Returns(info.blocks + start.val + 1, info.blocks)

\* the call with -2, 0 on an unpruned chain of tip 3 has returned, force set
C20_Witness ==
    /\ Called /\ OnUnpruned /\ force
    /\ start = IntArg(-2) /\ end = IntArg(0) /\ info.blocks = 3
    /\ resolved = Returns(2, 3)

\* info is the chain info of a pruned node
OnPruned ==
    /\ DOMAIN info = {"blocks", "pruned", "pruneheight"}
    /\ info.pruned = TRUE

\* both arguments are ints
IntArgs == start.isint /\ end.isint

Min(a, b) == IF a <= b THEN a ELSE b

\* C21: offset form. For every N >= 1 and every M >= 1, on an unpruned chain
\* with tip T, parse_start_and_end(-N, M, info, force) returns
\* (T - N + 1, min(T - N + M, T)).
C21_Offset ==
    (Called /\ OnUnpruned /\ IntArgs /\ start.val <= -1 /\ end.val >= 1)
        => resolved = Returns(info.blocks + start.val + 1,
                              Min(info.blocks + start.val + end.val,
                                  info.blocks))

\* C22: every pair (start, end) that parse_start_and_end returns has
\* start <= end, start >= 0, end <= tip and, on a pruned node,
\* start >= pruneheight.
C22_ValidRange ==
    (Called /\ resolved.raises = "") =>
        /\ resolved.start <= resolved.end
        /\ resolved.start >= 0
        /\ resolved.end <= info.blocks
        /\ OnPruned => resolved.start >= info.pruneheight

\* C23: identity. For all start, end with 0 <= start <= end <= tip on an
\* unpruned chain, parse_start_and_end returns (start, end) unchanged,
\* whatever force is.
C23_Identity ==
    (Called /\ OnUnpruned /\ IntArgs
     /\ 0 <= start.val /\ start.val <= end.val /\ end.val <= info.blocks)
        => /\ resolved.raises = ""
           /\ resolved.start = start.val
           /\ resolved.end = end.val

\* the call with 1, 3 on an unpruned chain of tip 3 has returned 1, 3
C23_Witness ==
    /\ Called /\ OnUnpruned /\ info.blocks = 3
    /\ start = IntArg(1) /\ end = IntArg(3)
    /\ resolved.raises = "" /\ resolved.start = 1 /\ resolved.end = 3

\* the arguments pass the checks made before any height is resolved: ints,
\* end >= 0, start <= end, neither above the tip
Accepted ==
    /\ IntArgs
    /\ 0 <= end.val /\ start.val <= end.val
    /\ start.val <= info.blocks /\ end.val <= info.blocks

\* the heights the pruning floor is applied to: the heights given or, for a
\* negative start, those counted back from the tip
ResolvedStart ==
    IF start.val < 0 THEN info.blocks + start.val + 1 ELSE start.val
ResolvedEnd ==
    IF start.val >= 0 THEN end.val
    ELSE IF end.val = 0 THEN info.blocks
    ELSE Min(info.blocks + start.val + end.val, info.blocks)

C25_FloorOnEnd ==
    (Called /\ OnPruned /\ IntArgs /\ ResolvedEnd < info.pruneheight)
        => resolved.raises # ""

\* the range 0..1 lies below the prune height 2 and is refused under force
C25_Witness ==
    /\ Called /\ OnPruned /\ force /\ Accepted
    /\ start = IntArg(0) /\ end = IntArg(1) /\ info.blocks = 3
    /\ info.pruneheight = 2
    /\ resolved = Raises("ValueError")

\* C26: raw ordering check. Whenever the arguments as given have
\* start > end the call fails, whatever force, the tip and the pruning
\* state are; the comparison is made before a negative start is resolved,
\* so a negative start with end >= 0 is not rejected by it: on an unpruned
\* chain with end within the tip such a call returns.
C26_RawOrder ==
    /\ (Called /\ IntArgs /\ start.val > end.val)
           => resolved = Raises("ValueError")
    /\ (Called /\ OnUnpruned /\ IntArgs /\ start.val < 0
        /\ 0 <= end.val /\ end.val <= info.blocks)
           => resolved.raises = ""

\* 3, 1 has been refused on a chain of tip 3, or -1, 1 (resolved start 3,
\* above the 1 given as end) accepted
C26_Witness ==
    /\ Called
    /\ \/ /\ start = IntArg(3) /\ end = IntArg(1) /\ force
          /\ OnPruned /\ info.blocks = 3 /\ info.pruneheight = 0
          /\ resolved = Raises("ValueError")
       \/ /\ start = IntArg(-1) /\ end = IntArg(1)
          /\ OnUnpruned /\ info.blocks = 3
          /\ resolved = Returns(3, 3)

\* ================================================================ filtering
\* SpecFilter: a call has at most MaxFilters filters, a block at most
\* MaxBlockTx transactions.
MaxFilters == 2
MaxBlockTx == 2

\* Tx(tx, time, height) of bobs.bitcoin.containers: the raw transaction with
\* the time and the height of its block
Tx(tx, time, height) ==
    [txid |-> tx.txid, size |-> tx.size, date |-> time, height |-> height]

\* a Criterion is a callable on a field value: here Greater(arg, False) and
\* Lesser(arg, False) of criteria.py
Criterion(c, value) ==
    IF c.op = "gt" THEN value > c.arg ELSE value < c.arg

\* the builtins all() and any() on the booleans an iterable produces
all(bs) == \A i \in 1..Len(bs) : bs[i]
any(bs) == \E i \in 1..Len(bs) : bs[i]

\* TxFilter._match_criterion: criterion(candidate[id_]), or
\* criterion(candidate) when the candidate has no such field
MatchCriterion(candidate, item) ==
    IF item.id \in DOMAIN candidate
    THEN Criterion(item.criterion, candidate[item.id])
    ELSE Criterion(item.criterion, candidate)

\* TxFilter.match(candidate): match_all is left at its default, True, by
\* every caller. `criteria` is the sequence of the items of the dict.
Match(filter, candidate) ==
    all([i \in 1..Len(filter) |-> MatchCriterion(candidate, filter[i])])

MatchPolicySwapped(flag, bs) == IF flag THEN any(bs) ELSE all(bs)

\* match_policy = all if match_all else any
MatchPolicy(flag, bs) == IF flag THEN all(bs) ELSE any(bs)

NoFilterNever(fs) == FALSE

\* no_filter = not filters
NoFilterGiven(fs) == fs = <<>>

\* if no_filter: yield tx   elif match_policy(f(tx) for f in f_matches): yield tx
Keeps(tx, flag, fs) ==
    \/ NoFilterGiven(fs)
    \/ MatchPolicy(flag, [i \in 1..Len(fs) |-> Match(fs[i], tx)])

RECURSIVE SelectKept(_, _, _)
SelectKept(candidates, flag, fs) ==
    IF candidates = <<>> THEN <<>>
    ELSE (IF Keeps(Head(candidates), flag, fs) THEN <<Head(candidates)>>
          ELSE <<>>) \o SelectKept(Tail(candidates), flag, fs)

\* generators.iterate_block_txs(block)
iterate_block_txs(blk) ==
    [i \in 1..Len(blk.tx) |-> Tx(blk.tx[i], blk.time, blk.height)]

\* generators.iter_filter_block_txs(block, match_all, filters)
iter_filter_block_txs(blk, flag, fs) ==
    SelectKept(iterate_block_txs(blk), flag, fs)

\* the body of the loop of scan_mem on the Tx of a mempool transaction
\* (get_full_tx returns Tx(tx_, height=0, date=0))
scan_mem_filter(raw, flag, fs) ==
    SelectKept([i \in 1..Len(raw) |-> Tx(raw[i], 0, 0)], flag, fs)

Reverse(seq) == [i \in 1..Len(seq) |-> seq[Len(seq) + 1 - i]]

\* advanced/iterators.py get_txs(block, *filters, match_all): block['tx'].pop()
\* takes the transactions from the end; with no filter match_all is forced,
\* and all() of nothing is True
get_txs(blk, fs, flag) ==
    LET policy == IF fs = <<>> THEN TRUE ELSE flag
        Test(tx) == IF policy
                    THEN all([i \in 1..Len(fs) |-> Match(fs[i], tx)])
                    ELSE any([i \in 1..Len(fs) |-> Match(fs[i], tx)])
    IN  SelectSeq(Reverse(iterate_block_txs(blk)), Test)

\* the filters a call is given: one criterion on `size`, or one on `size`
\* and one on `height`
Gt(n) == [op |-> "gt", arg |-> n]
Lt(n) == [op |-> "lt", arg |-> n]
OnField(id, c) == [id |-> id, criterion |-> c]

FilterPool ==
    { <<OnField("size", Gt(1))>>,
      <<OnField("size", Lt(1))>>,
      <<OnField("size", Gt(0)), OnField("height", Gt(0))>> }

\* the raw transactions of a block
RawTxs == {[txid |-> i, size |-> z] : i \in 1..2, z \in 0..2}

\* the block the transactions are in
FilterBlock(raw) == [height |-> 7, time |-> 70, tx |-> raw]

FilterFunctions == {"iter_filter_block_txs", "scan_mem", "get_txs"}

InitFilter ==
    /\ match_all \in BOOLEAN
    /\ filters \in BoundedSeq(FilterPool, MaxFilters)
    /\ txs \in BoundedSeq(RawTxs, MaxBlockTx)
    /\ applied = {}
    /\ kept = [f \in FilterFunctions |-> <<>>]
    /\ kind = "none"
    /\ start_height = 1
    /\ end_height = 0
    /\ mempool = {}
    /\ worker = "none"
    /\ task = [h \in Ids |-> "none"]
    /\ sent = [h \in {0} \cup Ids |-> 0]
    /\ utxo_req = [h \in Ids |-> 0]
    /\ tx_req = [h \in Ids |-> 0]
    /\ sem = SemPermits
    /\ lock = 0
    /\ result_queue = <<>>
    /\ put_by = <<>>
    /\ feed = <<>>
    /\ gatherer = "dead"
    /\ mode = "candidates"
    /\ call = "idle"
    /\ gen = "suspended"
    /\ buffer = <<>>
    /\ read = <<>>
    /\ yielded = <<>>
    /\ out = <<>>
    /\ scope = "left"
    /\ left_by = "none"
    /\ clock = 0
    /\ closed = FALSE
    /\ term_sent = FALSE
    /\ killed = FALSE
    /\ NoBlockTxs /\ NoScan /\ NoRange /\ NoCandidate /\ NoIter

\* filtering function f has consumed the block
Apply(f, output) ==
    /\ f \notin applied
    /\ applied' = applied \cup {f}
    /\ kept' = [kept EXCEPT ![f] = output]
    /\ UNCHANGED <<match_all, filters, txs>>
    /\ UNCHANGED <<gvars, tvars, bvars, svars, rvars, cvars, ivars>>

\* result_extend(iter_filter_block_txs(await block_done, match_all, filters))
FilterBlockTxs ==
    Apply("iter_filter_block_txs",
          iter_filter_block_txs(FilterBlock(txs), match_all, filters))

\* scan_mem: if no_filter: result_append(tx) elif match_policy(...): ...
FilterMemTxs ==
    Apply("scan_mem", scan_mem_filter(txs, match_all, filters))

\* get_txs(block, *filters, match_all=match_all)
FilterGetTxs ==
    Apply("get_txs", get_txs(FilterBlock(txs), filters, match_all))

NextFilter ==
    \/ FilterBlockTxs
    \/ FilterMemTxs
    \/ FilterGetTxs

SpecFilter == InitFilter /\ [][NextFilter]_vars

\* ------------------------------------------------------ claims, SpecFilter
\* how often candidate c occurs in seq
Count(seq, c) == Cardinality({i \in 1..Len(seq) : seq[i] = c})

\* seq and other hold the same candidates, each as often
SameCandidates(seq, other) ==
    /\ Len(seq) = Len(other)
    /\ \A i \in 1..Len(seq) : Count(seq, seq[i]) = Count(other, seq[i])

\* the candidates each source produces from the block
Produced(f) ==
    IF f = "scan_mem" THEN [i \in 1..Len(txs) |-> Tx(txs[i], 0, 0)]
    ELSE iterate_block_txs(FilterBlock(txs))

\* C16: with zero filters a scan returns every candidate the source
\* produces, under match-all and under match-any: iter_filter_block_txs and
\* scan_mem keep all of them in order, get_txs keeps all of them.
C16_NoFilterKeepsAll ==
    filters = <<>> =>
        /\ "iter_filter_block_txs" \in applied =>
               kept["iter_filter_block_txs"] = Produced("iter_filter_block_txs")
        /\ "scan_mem" \in applied => kept["scan_mem"] = Produced("scan_mem")
        /\ "get_txs" \in applied =>
               SameCandidates(kept["get_txs"], Produced("get_txs"))

\* all three have filtered a block of two transactions with no filter under
\* match-any
C16_Witness ==
    /\ filters = <<>> /\ ~match_all /\ Len(txs) = 2
    /\ applied = FilterFunctions
    /\ Len(kept["iter_filter_block_txs"]) = 2
    /\ Len(kept["scan_mem"]) = 2
    /\ Len(kept["get_txs"]) = 2

\* candidate c is accepted by every filter / by at least one filter
AcceptedByAll(c) == \A i \in 1..Len(filters) : Match(filters[i], c)
AcceptedByOne(c) == \E i \in 1..Len(filters) : Match(filters[i], c)

\* seq is `source` without the candidates that fail Test, in order
RECURSIVE Exactly(_, _, _)
Exactly(seq, source, policy) ==
    IF source = <<>> THEN seq = <<>>
    ELSE LET c == Head(source)
             ok == IF policy = "ALL" THEN AcceptedByAll(c) ELSE AcceptedByOne(c)
         IN  IF ok THEN /\ seq # <<>>
                        /\ Head(seq) = c
                        /\ Exactly(Tail(seq), Tail(source), policy)
             ELSE Exactly(seq, Tail(source), policy)

\* C17: with a non-empty filter set the result is exactly the candidates that
\* every filter accepts under ALL, and exactly those that at least one filter
\* accepts under ANY (so ALL over filters no candidate satisfies together
\* yields nothing).
C17_MatchPolicy ==
    filters # <<>> =>
        \A f \in applied \cap {"iter_filter_block_txs", "scan_mem"} :
            Exactly(kept[f], Produced(f), IF match_all THEN "ALL" ELSE "ANY")

\* size > 1 and size < 1 under ALL: a block of two transactions, one of them
\* accepted by the first filter, has been filtered to nothing
C17_Witness ==
    /\ match_all
    /\ filters = << <<OnField("size", Gt(1))>>, <<OnField("size", Lt(1))>> >>
    /\ Len(txs) = 2 /\ txs[1].size = 2
    /\ "iter_filter_block_txs" \in applied
    /\ kept["iter_filter_block_txs"] = <<>>

\* ===================================================================== scan
\* SpecScan: the chain has MaxScan blocks and a mempool snapshot at most
\* MaxScan transactions; virtual_memory().percent is in 1..MaxUsed;
\* settings['limits']['concurrency_limit'] is in 1..MaxConcurrency.
MaxScan == 2
MaxUsed == 2
MaxConcurrency == 2

\* what a fetch can fail with, and what can end a scan
FetchErrors == {"ClientConnectionError", "ClientResponseError"}

\* a task that has finished: with a result, an exception, or cancelled
Finished(h) ==
    fetch[h] \in {"done", "MemoryError", "cancelled"} \cup FetchErrors

\* the title the handler of exception e passes to print_error
Title(e) ==
    CASE e = "CancelledError" -> "Task canceled"
      [] e = "ClientConnectionError" -> "Connection error"
      [] e = "MemoryError" -> "Memory error"
      [] e = "KeyboardInterrupt" -> "Keyboard Interrupt"
      [] OTHER -> "Something went wrong"

\* the block of height h as rest.get_block returns it
BlockAt(h) ==
    [height |-> h, time |-> 10 * h,
     tx |-> << [txid |-> 10 * h + 1, size |-> 1],
               [txid |-> 10 * h + 2, size |-> 2] >>]

\* the transaction txid as rest.get_tx returns it
MempoolTx(txid) == [txid |-> txid, size |-> txid % 3]

\* the two requests of a fetch task, in order
FirstRequest == IF scan = "scan_blocks" THEN "get_blockhash" ELSE "get_tx"
SecondRequest == IF scan = "scan_blocks" THEN "get_block" ELSE "update_inputs"

\* what `await block_done` / `await tx_done` adds to result
Matches(h) ==
    IF scan = "scan_blocks"
    THEN iter_filter_block_txs(BlockAt(h), match_all, filters)
    ELSE scan_mem_filter(<<MempoolTx(h)>>, match_all, filters)

\* the filters of a scan: none, or `size > 1`
ScanFilters == { <<>>, << <<OnField("size", Gt(1))>> >> }

InitScan ==
    /\ \/ /\ scan = "scan_blocks"
          /\ scan_args \in {[start |-> s, end |-> e] :
                               s \in {-1, 1}, e \in {0, MaxScan}}
          /\ chain_info \in {Unpruned(MaxScan), Pruned(MaxScan, MaxScan),
                              [blocks |-> MaxScan]}
          /\ memory_limit \in {0, MaxUsed - 1}
       \/ /\ scan = "scan_mem"
          /\ scan_args = [start |-> 0, end |-> 0]
          /\ chain_info = Unpruned(MaxScan)
          /\ memory_limit = 0
    /\ pc = "start"
    /\ match_all = FALSE
    /\ filters \in ScanFilters
    /\ fetch = [h \in Ids |-> "none"]
    /\ mem_checks = [h \in Ids |-> <<>>]
    /\ requests = [h \in Ids |-> 0]
    /\ permits \in 1..MaxConcurrency
    /\ done = {}
    /\ gen_pending = {}
    /\ pending = {}
    /\ block_done = 0
    /\ to_cancel = {}
    /\ result = <<>>
    /\ handed = <<>>
    /\ printed = ""
    /\ returned = <<>>
    /\ txs = <<>>
    /\ applied = {}
    /\ kept = <<>>
    /\ kind = "none"
    /\ start_height = 1
    /\ end_height = 0
    /\ mempool = {}
    /\ worker = "none"
    /\ task = [h \in Ids |-> "none"]
    /\ sent = [h \in {0} \cup Ids |-> 0]
    /\ utxo_req = [h \in Ids |-> 0]
    /\ tx_req = [h \in Ids |-> 0]
    /\ sem = SemPermits
    /\ lock = 0
    /\ result_queue = <<>>
    /\ put_by = <<>>
    /\ feed = <<>>
    /\ gatherer = "dead"
    /\ mode = "candidates"
    /\ call = "idle"
    /\ gen = "suspended"
    /\ buffer = <<>>
    /\ read = <<>>
    /\ yielded = <<>>
    /\ out = <<>>
    /\ scope = "left"
    /\ left_by = "none"
    /\ clock = 0
    /\ closed = FALSE
    /\ term_sent = FALSE
    /\ killed = FALSE
    /\ NoBlockTxs /\ NoRange /\ NoCandidate /\ NoIter

\* what no action of a scan changes
ScanFixed ==
    /\ UNCHANGED <<scan, scan_args, chain_info, memory_limit, match_all, filters>>
    /\ UNCHANGED <<txs, applied, kept>>
    /\ UNCHANGED <<gvars, tvars, bvars, rvars, cvars, ivars>>

\* an exception reaches the except clauses of the scan: its handler prints,
\* and the finally clause begins to walk the scan's own `pending`
Abort(e) ==
    /\ printed' = Title(e)
    /\ pc' = "cleanup"
    /\ to_cancel' = pending

\* the generator runs up to its first `await wait(pending, ...)`: wait() makes
\* a set of the map, which creates every fetch task
CreateTasks(ids) ==
    /\ fetch' = [h \in Ids |-> IF h \in ids THEN "new" ELSE "none"]
    /\ gen_pending' = ids
    /\ pc' = "wait"

\* ---- scan_blocks / scan_mem up to the loop
\* chain_info = await rest.get_chain_info() returns, parse_start_and_end
\* resolves the range or raises, and `async for` starts the generator
ChainInfoOk ==
    /\ scan = "scan_blocks" /\ pc = "start"
    /\ LET r == obs_utils_parse_start_and_end(IntArg(scan_args.start),
                                              IntArg(scan_args.end),
                                              chain_info, FALSE)
       IN  IF r.raises # ""
           THEN /\ Abort(r.raises)
                /\ UNCHANGED <<fetch, gen_pending>>
           ELSE /\ CreateTasks(r.start..r.end)
                /\ UNCHANGED <<printed, to_cancel>>
    /\ UNCHANGED <<mem_checks, requests, permits, done, pending, block_done,
                   result, handed, returned>>
    /\ ScanFixed

\* mempool = await rest.get_mempool(True) returns n transactions and
\* `async for` starts the generator; wait() of no task at all raises
GetMempoolSnapshot(n) ==
    /\ scan = "scan_mem" /\ pc = "start"
    /\ IF n = 0
       THEN /\ Abort("AssertionError")
            /\ UNCHANGED <<fetch, gen_pending>>
       ELSE /\ CreateTasks(1..n)
            /\ UNCHANGED <<printed, to_cancel>>
    /\ UNCHANGED <<mem_checks, requests, permits, done, pending, block_done,
                   result, handed, returned>>
    /\ ScanFixed

\* rest.get_chain_info() / rest.get_mempool(True) raises
FirstRequestFails(e) ==
    /\ pc = "start"
    /\ Abort(e)
    /\ UNCHANGED <<fetch, mem_checks, requests, permits, done, gen_pending,
                   pending, block_done, result, handed, returned>>
    /\ ScanFixed

\* ---- the fetch tasks: get_block(height) / get_full_tx(txid)
\* The event loop runs a task only while the scan is suspended: in wait(), or
\* in the `await task` of the cleanup.
Suspended == pc \in {"wait", "cleanup"}

MemoryExceededNever(limit, used) == FALSE

\* check_memory: if memory_limit and (memory.percent > memory_limit): raise
MemoryExceeded(limit, used) == limit # 0 /\ used > limit

\* async with sem: the tasks are created and first run in range order and the
\* Semaphore wakes its waiters in that order. With the permit, get_block
\* runs `if memory_limit: check_memory(memory_limit)` and issues its first
\* request, or leaves with MemoryError and gives the permit back;
\* get_full_tx issues its first request.
FetchAcquire(h, used) ==
    /\ Suspended
    /\ fetch[h] = "new"
    /\ \A g \in Ids : g < h => fetch[g] # "new"
    /\ permits > 0
    /\ IF scan = "scan_blocks" /\ memory_limit # 0
       THEN /\ mem_checks' = [mem_checks EXCEPT ![h] = Append(@, used)]
            /\ IF MemoryExceeded(memory_limit, used)
               THEN /\ fetch' = [fetch EXCEPT ![h] = "MemoryError"]
                    /\ UNCHANGED <<requests, permits>>
               ELSE /\ fetch' = [fetch EXCEPT ![h] = FirstRequest]
                    /\ requests' = [requests EXCEPT ![h] = @ + 1]
                    /\ permits' = permits - 1
       ELSE /\ fetch' = [fetch EXCEPT ![h] = FirstRequest]
            /\ requests' = [requests EXCEPT ![h] = @ + 1]
            /\ permits' = permits - 1
            /\ UNCHANGED mem_checks
    /\ UNCHANGED <<pc, done, gen_pending, pending, block_done, to_cancel,
                   result, handed, printed, returned>>
    /\ ScanFixed

\* await rest.get_blockhash(height) / await rest.get_tx(txid) returns and the
\* second request is issued
FetchFirstOk(h) ==
    /\ Suspended
    /\ fetch[h] = FirstRequest
    /\ fetch' = [fetch EXCEPT ![h] = SecondRequest]
    /\ requests' = [requests EXCEPT ![h] = @ + 1]
    /\ UNCHANGED <<pc, mem_checks, permits, done, gen_pending, pending,
                   block_done, to_cancel, result, handed, printed, returned>>
    /\ ScanFixed

\* await rest.get_block(...) / await gather(*map(update_inputs, ...)) returns:
\* the task returns its block / its Tx and leaves `async with sem`
FetchSecondOk(h) ==
    /\ Suspended
    /\ fetch[h] = SecondRequest
    /\ fetch' = [fetch EXCEPT ![h] = "done"]
    /\ permits' = permits + 1
    /\ UNCHANGED <<pc, mem_checks, requests, done, gen_pending, pending,
                   block_done, to_cancel, result, handed, printed, returned>>
    /\ ScanFixed

\* a request fails: no connection, or raise_for_status() on a non-success
\* status; the exception ends the task, which leaves `async with sem`
FetchFail(h, e) ==
    /\ Suspended
    /\ fetch[h] \in {FirstRequest, SecondRequest}
    /\ fetch' = [fetch EXCEPT ![h] = e]
    /\ permits' = permits + 1
    /\ UNCHANGED <<pc, mem_checks, requests, done, gen_pending, pending,
                   block_done, to_cancel, result, handed, printed, returned>>
    /\ ScanFixed

WaitReturnsAll ==
    /\ pc = "wait"
    /\ \E h \in gen_pending : Finished(h)
    /\ done' = {h \in gen_pending : Finished(h)}
    /\ gen_pending' = gen_pending
    /\ pc' = "yield"
    /\ UNCHANGED <<fetch, mem_checks, requests, permits, pending, block_done,
                   to_cancel, result, handed, printed, returned>>
    /\ ScanFixed

\* ---- iterate_blocks / iterate_mem_txs
\* done, pending = await wait(pending, return_when=FIRST_COMPLETED) returns
\* once a task has finished, with every task finished by then
WaitReturns ==
    /\ pc = "wait"
    /\ \E h \in gen_pending : Finished(h)
    /\ done' = {h \in gen_pending : Finished(h)}
    /\ gen_pending' = {h \in gen_pending : ~Finished(h)}
    /\ pc' = "yield"
    /\ UNCHANGED <<fetch, mem_checks, requests, permits, pending, block_done,
                   to_cancel, result, handed, printed, returned>>
    /\ ScanFixed

\* for block_done in done: yield block_done, pending; the scan's loop binds
\* both
Yield(h) ==
    /\ pc = "yield"
    /\ h \in done
    /\ done' = done \ {h}
    /\ block_done' = h
    /\ pending' = gen_pending
    /\ handed' = Append(handed, h)
    /\ pc' = "await"
    /\ UNCHANGED <<fetch, mem_checks, requests, permits, gen_pending,
                   to_cancel, result, printed, returned>>
    /\ ScanFixed

\* ---- the loop of the scan
\* the loop body is over: the generator resumes behind its yield and hands
\* out the next task of `done`, or waits again, or `while pending` ends it
\* and the scan goes on to its finally clause
Resume ==
    IF done # {} THEN /\ pc' = "yield"
                      /\ UNCHANGED to_cancel
    ELSE IF gen_pending # {} THEN /\ pc' = "wait"
                                  /\ UNCHANGED to_cancel
    ELSE /\ pc' = "cleanup"
         /\ to_cancel' = pending

\* scan_mem: try: tx = await tx_done  except ClientResponseError: continue
Skips(e) == scan = "scan_mem" /\ e = "ClientResponseError"

\* `await block_done` / `await tx_done` on the finished task: its result is
\* filtered into result, or its exception is raised in the scan
Await ==
    /\ pc = "await"
    /\ IF fetch[block_done] = "done"
       THEN /\ result' = result \o Matches(block_done)
            /\ Resume
            /\ UNCHANGED printed
       ELSE IF Skips(fetch[block_done])
       THEN /\ Resume
            /\ UNCHANGED <<result, printed>>
       ELSE /\ Abort(fetch[block_done])
            /\ UNCHANGED result
    /\ UNCHANGED <<fetch, mem_checks, requests, permits, done, gen_pending,
                   pending, block_done, handed, returned>>
    /\ ScanFixed

\* Ctrl-C while the loop body runs
KeyboardInterrupt ==
    /\ pc = "await"
    /\ Abort("KeyboardInterrupt")
    /\ UNCHANGED <<fetch, mem_checks, requests, permits, done, gen_pending,
                   pending, block_done, result, handed, returned>>
    /\ ScanFixed

\* the caller cancels the scan: CancelledError is raised where the scan is
\* suspended, in its first request or in wait() (wait() leaves the tasks it
\* waits for alone)
Cancel ==
    /\ pc \in {"start", "wait"}
    /\ Abort("CancelledError")
    /\ UNCHANGED <<fetch, mem_checks, requests, permits, done, gen_pending,
                   pending, block_done, result, handed, returned>>
    /\ ScanFixed

\* finally: for task in pending: task.cancel(); try: await task except: pass
\* A finished task is left as it is and whatever it raises is dropped; any
\* other ends cancelled, giving back the permit it holds.
CleanupTask(h) ==
    /\ pc = "cleanup"
    /\ h \in to_cancel
    /\ to_cancel' = to_cancel \ {h}
    /\ IF Finished(h)
       THEN UNCHANGED <<fetch, permits>>
       ELSE /\ fetch' = [fetch EXCEPT ![h] = "cancelled"]
            /\ permits' = IF fetch[h] = "new" THEN permits ELSE permits + 1
    /\ UNCHANGED <<pc, mem_checks, requests, done, gen_pending, pending,
                   block_done, result, handed, printed, returned>>
    /\ ScanFixed

KeepsNothing(matches) == <<>>

\* return result
Returned(matches) == matches

ScanReturns ==
    /\ pc = "cleanup"
    /\ to_cancel = {}
    /\ pc' = "returned"
    /\ returned' = Returned(result)
    /\ UNCHANGED <<fetch, mem_checks, requests, permits, done, gen_pending,
                   pending, block_done, to_cancel, result, handed, printed>>
    /\ ScanFixed

NextScan ==
    \/ ChainInfoOk
    \/ \E n \in 0..MaxScan : GetMempoolSnapshot(n)
    \/ \E e \in FetchErrors : FirstRequestFails(e)
    \/ \E h \in Ids, used \in 1..MaxUsed : FetchAcquire(h, used)
    \/ \E h \in Ids : FetchFirstOk(h)
    \/ \E h \in Ids : FetchSecondOk(h)
    \/ \E h \in Ids, e \in FetchErrors : FetchFail(h, e)
    \/ WaitReturns
    \/ \E h \in Ids : Yield(h)
    \/ Await
    \/ KeyboardInterrupt
    \/ Cancel
    \/ \E h \in Ids : CleanupTask(h)
    \/ ScanReturns

SpecScan == InitScan /\ [][NextScan]_vars

\* -------------------------------------------------------- claims, SpecScan
\* the fetch tasks the scan has created
Created == {h \in Ids : fetch[h] # "none"}

\* C11: when scan_blocks or scan_mem returns, however the scan ended, every
\* fetch task it created is done or has been cancelled and awaited: none is
\* left pending.
C11_NoTaskLeftPending ==
    pc = "returned" => \A h \in Created : Finished(h)

\* the scan has awaited the i-th task it was handed (Ctrl-C ends the loop
\* body before the task in hand is awaited)
Awaited(i) ==
    \/ i < Len(handed)
    \/ pc # "await" /\ printed # Title("KeyboardInterrupt")

\* C12: no fetch failure is swallowed: every fetch that failed (no
\* connection, or a non-success status) and that the scan has awaited has
\* aborted the scan, at that task, and has been reported.
C12_FetchFailureAborts ==
    \A i \in 1..Len(handed) :
        (Awaited(i) /\ fetch[handed[i]] \in FetchErrors) =>
            /\ i = Len(handed)
            /\ pc \in {"cleanup", "returned"}
            /\ printed # ""

\* the tasks the scan has awaited, in order
Processed ==
    IF handed # <<>> /\ ~Awaited(Len(handed))
    THEN SubSeq(handed, 1, Len(handed) - 1)
    ELSE handed

\* the matches of the tasks of `order` that returned a block / a Tx
RECURSIVE Collected(_)
Collected(order) ==
    IF order = <<>> THEN <<>>
    ELSE (IF fetch[Head(order)] = "done" THEN Matches(Head(order)) ELSE <<>>)
         \o Collected(Tail(order))

\* C13: a scan that aborts mid-way returns (it does not raise) exactly the
\* matches of the items it processed before the failure, in the order it
\* collected them; so does a scan that runs to its end.
C13_PartialResults ==
    pc = "returned" => returned = Collected(Processed)

\* a scan of two blocks has returned the matches of the first block it was
\* handed after the fetch of the second one failed
C13_Witness ==
    /\ pc = "returned"
    /\ printed = Title("ClientConnectionError")
    /\ Len(handed) = 2
    /\ fetch[handed[1]] = "done" /\ fetch[handed[2]] = "ClientConnectionError"
    /\ returned = Matches(handed[1]) /\ returned # <<>>

\* C14: with a memory limit set, a block fetch task checks memory once, with
\* the semaphore acquired and before its first request; it fails with
\* MemoryError exactly when the used percentage exceeds the limit and then
\* issues no request; once the scan awaits such a task it aborts there, no
\* block is processed after it, and the cleanup runs. With no limit no task
\* checks and none fails with MemoryError.
C14_MemoryGuard ==
    /\ \A h \in Created :
        /\ Len(mem_checks[h]) <= 1
        /\ fetch[h] = "new" => mem_checks[h] = <<>>
        /\ (scan = "scan_blocks" /\ memory_limit > 0 /\ fetch[h] # "new"
              /\ (fetch[h] = "cancelled" => requests[h] > 0)) =>
               /\ Len(mem_checks[h]) = 1
               /\ (mem_checks[h][1] > memory_limit) <=> (fetch[h] = "MemoryError")
        /\ fetch[h] = "MemoryError" => requests[h] = 0
        /\ memory_limit = 0 => mem_checks[h] = <<>> /\ fetch[h] # "MemoryError"
    /\ \A i \in 1..Len(handed) :
        (Awaited(i) /\ fetch[handed[i]] = "MemoryError") =>
            /\ i = Len(handed)
            /\ pc \in {"cleanup", "returned"}
            /\ printed = "Memory error"
    /\ memory_limit = 0 => printed # "Memory error"

\* the first block was processed, the check
\* of the second task saw more than the limit, and the scan has returned
\* the first block's matches
C14_Witness ==
    /\ scan = "scan_blocks" /\ memory_limit = 1 /\ pc = "returned"
    /\ Len(handed) = 2
    /\ fetch[handed[1]] = "done" /\ mem_checks[handed[1]] = <<1>>
    /\ fetch[handed[2]] = "MemoryError" /\ mem_checks[handed[2]] = <<2>>
    /\ printed = "Memory error"
    /\ returned = Matches(handed[1])

\* invalid arguments, a malformed chain info, a range below the prune height
\* (settings['scan']['force'] is off)
BadArguments == scan_args.end < 0 \/ scan_args.start > scan_args.end
Malformed == "pruned" \notin DOMAIN chain_info
PruningError ==
    /\ ~Malformed
    /\ chain_info.pruned
    /\ scan_args.start >= 0
    /\ scan_args.start < chain_info.pruneheight

\* the scan has left its try block before the generator was started
FailedAtStart ==
    /\ pc \in {"cleanup", "returned"}
    /\ handed = <<>>
    /\ gen_pending = {}

\* C15: when fetching the chain info or resolving the range fails,
\* scan_blocks creates no fetch task and returns an empty result.
C15_FailFast ==
    (scan = "scan_blocks"
       /\ (BadArguments \/ Malformed \/ PruningError \/ FailedAtStart)) =>
        /\ Created = {}
        /\ pc \in {"start", "cleanup", "returned"}
        /\ result = <<>>
        /\ returned = <<>>

\* scan_blocks(1, MaxScan) on a node pruned up to MaxScan has returned
C15_Witness ==
    /\ scan = "scan_blocks" /\ PruningError
    /\ scan_args = [start |-> 1, end |-> MaxScan]
    /\ pc = "returned" /\ printed = "Something went wrong"
    /\ Created = {} /\ returned = <<>>

\* ============================================================== BlockTxsV3
\* SpecBlockTxs: the decoder of BlockTxsV3 on what a gatherer has left on the
\* queue, at most MaxBlockFeed entries.
MaxBlockFeed == 4

\* The body of a block is written in ASCII digits: the height, the time, and
\* one digit for each transaction (its txid).
\* the entries on the queue: the two markers, the chunks b'173' and b'284'
\* (a block with one transaction each) and the chunk b'5'
BlockAlphabet == {EndOfItem, EndOfStream, <<49, 55, 51>>, <<50, 56, 52>>, <<53>>}

\* orjson.loads(buffer) does not raise JSONDecodeError
IsBlockJson(buf) ==
    /\ Len(buf) >= 2
    /\ \A i \in 1..Len(buf) : buf[i] \in 48..57

\* block = loads(buffer)
LoadsBlock(buf) ==
    [height |-> buf[1] - 48,
     time |-> buf[2] - 48,
     tx |-> [i \in 1..(Len(buf) - 2) |-> buf[i + 2] - 48]]

\* tx['timestamp_date'] = block['time']; tx['height'] = block['height'], and
\* self._CANDIDATE(tx)
TransactionV3(txid, blk) ==
    [is |-> "TransactionV3", txid |-> txid,
     height |-> blk.height, timestamp_date |-> blk.time]

\* what the caller gets instead of a candidate
NotATx(what) == [is |-> what, txid |-> 0, height |-> 0, timestamp_date |-> 0]

NextTxFromEnd(blk, pos) == blk.tx[Len(blk.tx) - pos]

\* for tx in block['tx']: the transaction behind the `pos` already yielded
NextTx(blk, pos) == blk.tx[pos + 1]

InitBlockTxs ==
    /\ kind = "BlockTxsV3"
    /\ result_queue \in BoundedSeq(BlockAlphabet, MaxBlockFeed)
    /\ mode \in {"candidates", "next"}
    /\ block = NoBlock
    /\ tx_pos = 0
    /\ start_height = 1
    /\ end_height = 0
    /\ mempool = {}
    /\ worker = "returned"
    /\ task = [h \in Ids |-> "none"]
    /\ sent = [h \in {0} \cup Ids |-> 0]
    /\ utxo_req = [h \in Ids |-> 0]
    /\ tx_req = [h \in Ids |-> 0]
    /\ sem = SemPermits
    /\ lock = 0
    /\ put_by = <<>>
    /\ feed = <<>>
    /\ gatherer = "dead"
    /\ call = "idle"
    /\ gen = "suspended"
    /\ buffer = <<>>
    /\ read = <<>>
    /\ yielded = <<>>
    /\ out = <<>>
    /\ scope = "with"
    /\ left_by = "none"
    /\ clock = 0
    /\ closed = FALSE
    /\ term_sent = FALSE
    /\ killed = FALSE
    /\ NoScan /\ NoFilter /\ NoRange /\ NoCandidate /\ NoIter

\* what no action of the decoder changes
BlockTxsFixed ==
    /\ UNCHANGED <<kind, start_height, end_height, mempool, worker, task, sent,
                   utxo_req, tx_req, sem, lock, put_by>>
    /\ UNCHANGED <<feed, gatherer, mode, scope, left_by, clock, closed,
                   term_sent, killed>>
    /\ UNCHANGED xvars

\* the caller asks for a candidate: `for tx in target.candidates` resumes
\* the one _get_raw_candidates generator; target.next builds a new one, over
\* a new _get_buffers, and whatever the last one held is dropped
CallBlockTxs ==
    /\ scope = "with"
    /\ call = "idle"
    /\ IF mode = "candidates"
       THEN /\ gen = "suspended"
            /\ UNCHANGED <<block, tx_pos, buffer>>
       ELSE /\ block' = NoBlock
            /\ tx_pos' = 0
            /\ buffer' = <<>>
    /\ call' = mode
    /\ UNCHANGED <<result_queue, gen, read, yielded, out>>
    /\ BlockTxsFixed

\* for tx in block['tx']: ... yield tx
YieldTx ==
    /\ scope = "with"
    /\ call # "idle"
    /\ tx_pos < Len(block.tx)
    /\ out' = Append(out, TransactionV3(NextTx(block, tx_pos), block))
    /\ tx_pos' = tx_pos + 1
    /\ call' = "idle"
    /\ UNCHANGED <<result_queue, gen, block, buffer, read, yielded>>
    /\ BlockTxsFixed

\* the transactions of `block` are used up: _get_buffers goes on, one
\* chunk = self._result_queue.get() a step.
\*   b''     the buffer is yielded (and begun anew) and loads makes it the
\*           next block, or raises JSONDecodeError, which ends the generator;
\*   b'END'  _get_buffers ends and with it the for loop: `next` returns None;
\*   else    the chunk is added to the buffer.
GetBlockTxs ==
    /\ scope = "with"
    /\ call # "idle"
    /\ tx_pos = Len(block.tx)
    /\ result_queue # <<>>
    /\ LET chunk == Head(result_queue) IN
        /\ result_queue' = Tail(result_queue)
        /\ read' = Append(read, chunk)
        /\ IF chunk = EndOfItem
           THEN /\ yielded' = Append(yielded, buffer)
                /\ buffer' = <<>>
                /\ tx_pos' = 0
                /\ IF IsBlockJson(buffer)
                   THEN /\ block' = LoadsBlock(buffer)
                        /\ UNCHANGED <<call, gen, out>>
                   ELSE /\ block' = NoBlock
                        /\ out' = Append(out, NotATx("JSONDecodeError"))
                        /\ call' = "idle"
                        /\ gen' = IF mode = "candidates" THEN "stopped" ELSE gen
           ELSE IF IsEndOfStream(chunk)
           THEN /\ call' = "idle"
                /\ gen' = IF mode = "candidates" THEN "stopped" ELSE gen
                /\ out' = IF mode = "next" THEN Append(out, NotATx("None"))
                          ELSE out
                /\ UNCHANGED <<block, tx_pos, buffer, yielded>>
           ELSE /\ buffer' = Extend(buffer, chunk)
                /\ UNCHANGED <<block, tx_pos, call, gen, yielded, out>>
    /\ BlockTxsFixed

NextBlockTxs ==
    \/ CallBlockTxs
    \/ YieldTx
    \/ GetBlockTxs

SpecBlockTxs == InitBlockTxs /\ [][NextBlockTxs]_vars

\* ---------------------------------------------------- claims, SpecBlockTxs
\* the transaction candidates of the block in buffer buf, in the block's order
FanOut(buf) ==
    LET blk == LoadsBlock(buf)
    IN  [i \in 1..Len(blk.tx) |-> TransactionV3(blk.tx[i], blk)]

\* those of every buffer of bufs that is a block, in the order of bufs
RECURSIVE FanOutAll(_)
FanOutAll(bufs) ==
    IF bufs = <<>> THEN <<>>
    ELSE (IF IsBlockJson(Head(bufs)) THEN FanOut(Head(bufs)) ELSE <<>>)
         \o FanOutAll(Tail(bufs))

IsTx(c) == c.is = "TransactionV3"

\* C19: iterating `candidates` of BlockTxsV3 turns each block buffer into
\* exactly len(block['tx']) candidates, in the block's order, each with the
\* height and the time of its block, and all of one block before any of the
\* next buffer: what the caller has got is the fan-out of the buffers
\* yielded so far, short of the transactions of the current block still to
\* come.
C19_FanOut ==
    mode = "candidates" =>
        LET expected == FanOutAll(yielded)
            got == SelectSeq(out, IsTx)
        IN  /\ Len(got) <= Len(expected)
            /\ got = SubSeq(expected, 1, Len(got))
            /\ Len(expected) - Len(got) = Len(block.tx) - tx_pos

\* two blocks of one transaction each, or a block of two transactions, have
\* been fanned out
C19_Witness ==
    /\ mode = "candidates" /\ call = "idle"
    /\ \/ /\ yielded = << <<49, 55, 51>>, <<50, 56, 52>> >>
          /\ out = << [is |-> "TransactionV3", txid |-> 3, height |-> 1,
                       timestamp_date |-> 7],
                      [is |-> "TransactionV3", txid |-> 4, height |-> 2,
                       timestamp_date |-> 8] >>
       \/ /\ yielded = << <<49, 55, 51, 53>> >>
          /\ Len(out) = 2 /\ out[1].txid = 3 /\ out[2].txid = 5

\* ------------------------------------------- claims, SpecTarget (decoding)
\* C18: when a reassembled buffer is not valid JSON the candidate sequence
\* ends at that item: no candidate is produced after the JSONDecodeError by
\* skipping the bad buffer.
C18_DecodeFailureEnds ==
    \A i \in 1..Len(out), j \in 1..Len(out) :
        (i < j /\ out[i].is = "JSONDecodeError") => out[j].is # "Candidate"

\* ============================================================== candidates
\* SpecCandidate: one attribute of a TransactionV3 candidate is asked for, or
\* one criterion matched against it. A transaction has 1..MaxTxIn inputs and
\* 1..MaxTxOut outputs; amounts are whole numbers of satoshi.
MaxTxIn == 2
MaxTxOut == 3

\* what an expression gives: a value, or an exception
Ok(v) == [raises |-> "", val |-> v]
Err(e) == [raises |-> e, val |-> 0]

\* the inputs of a raw transaction: the input of a coinbase, an input with
\* its prevout and the address of it, and one whose script has no address
CoinbaseInput == [coinbase |-> "04ffff001d"]
TxInputs ==
    {CoinbaseInput,
     [prevout |-> [value |-> 1,
                   scriptPubKey |-> [type |-> "pubkeyhash", address |-> "1A"]]],
     [prevout |-> [value |-> 3, scriptPubKey |-> [type |-> "nulldata"]]]}

\* the raw transactions, with and without the field 'fee'
RawTransactions ==
    LET vins == BoundedSeq(TxInputs, MaxTxIn) \ {<<>>}
        vouts == BoundedSeq({[value |-> 1], [value |-> 2]}, MaxTxOut) \ {<<>>}
        bare == {[vin |-> i, vout |-> o, vsize |-> z] :
                    i \in vins, o \in vouts, z \in {1, 2}}
    IN  bare \cup {[vin |-> t.vin, vout |-> t.vout, vsize |-> t.vsize,
                    fee |-> f] : t \in bare, f \in {0, 1}}

RECURSIVE SumSeq(_)
SumSeq(values) ==
    IF values = <<>> THEN 0 ELSE Head(values) + SumSeq(Tail(values))

\* 'coinbase' in self.raw_data['vin'][0]
is_coinbase(r) == "coinbase" \in DOMAIN r.vin[1]

\* map(itemgetter('value'), self.raw_data['vout'])
out_values(r) == [i \in 1..Len(r.vout) |-> r.vout[i].value]

total_out(r) == SumSeq(out_values(r))

\* tx_input['prevout'] of every input can be looked up
HavePrevout(r) == \A i \in 1..Len(r.vin) : "prevout" \in DOMAIN r.vin[i]

\* TransactionV3.in_values
in_values(r) ==
    IF is_coinbase(r) THEN Ok(<<>>)
    ELSE IF ~HavePrevout(r) THEN Err("KeyError")
    ELSE Ok([i \in 1..Len(r.vin) |-> r.vin[i].prevout.value])

\* TransactionV3.abs_fee: try: return self.fee  except KeyError: ...
\* (self.total_in lets the KeyError of in_values through)
abs_fee(r) ==
    IF "fee" \in DOMAIN r THEN Ok(r.fee)
    ELSE IF is_coinbase(r) THEN Ok(0)
    ELSE IF in_values(r).raises # "" THEN in_values(r)
    ELSE Ok(SumSeq(in_values(r).val) - total_out(r))

\* TransactionV3.rel_fee, in tenths of sat/vb: vsize is 1 or 2 here, so the
\* quotient is exact and round(..., 1) leaves it as it is
rel_fee(r) ==
    IF is_coinbase(r) THEN Ok(0)
    ELSE IF abs_fee(r).raises # "" THEN abs_fee(r)
    ELSE Ok((abs_fee(r).val * 10) \div r.vsize)

\* TransactionV3.in_addrs, as a list
in_addrs(r) ==
    IF is_coinbase(r) THEN Ok(<<>>)
    ELSE IF ~HavePrevout(r) THEN Err("KeyError")
    ELSE Ok([i \in 1..Len(r.vin) |->
                IF "address" \in DOMAIN r.vin[i].prevout.scriptPubKey
                THEN r.vin[i].prevout.scriptPubKey.address ELSE ""])

\* TransactionV3.in_types, as a list
in_types(r) ==
    IF is_coinbase(r) THEN Ok(<<>>)
    ELSE IF ~HavePrevout(r) THEN Err("KeyError")
    ELSE Ok([i \in 1..Len(r.vin) |-> r.vin[i].prevout.scriptPubKey.type])

\* Counter(values)[v]
Counter(values, v) == Cardinality({i \in 1..Len(values) : values[i] = v})

first_counted(values) == <<values[1], Counter(values, values[1])>>

\* Counter(values).most_common(1)[0]: the value counted most often, the one
\* met first among equals, and its count
most_common(values) ==
    LET i == CHOOSE k \in 1..Len(values) :
                 /\ \A j \in 1..Len(values) :
                        Counter(values, values[j]) <= Counter(values, values[k])
                 /\ \A j \in 1..(k - 1) :
                        Counter(values, values[j]) < Counter(values, values[k])
    IN  <<values[i], Counter(values, values[i])>>

\* Transaction.n_eq
n_eq(r) == most_common(out_values(r))[2]

\* Transaction.den
den(r) == IF n_eq(r) > 1 THEN most_common(out_values(r))[1] ELSE 0

\* a value a criterion is called on: an int, a list, or the candidate
PyInt(n) == [type |-> "int", v |-> n]
PyList(l) == [type |-> "list", v |-> l]
PySelf(r) == [type |-> "Candidate", v |-> r]

\* the names looked up with match_criterion: two properties of the class,
\* two fields of raw_data (one of them not in every record) and a name that
\* is neither
Identifiers == {"abs_fee", "n_out", "vin", "fee", "not_found"}

\* getattr(self, id_): the property of the class, or through __getattr__
\* self.raw_data[id_]
GetAttr(r, id) ==
    IF id = "abs_fee"
    THEN IF abs_fee(r).raises # "" THEN abs_fee(r)
         ELSE Ok(PyInt(abs_fee(r).val))
    ELSE IF id = "n_out" THEN Ok(PyInt(Len(r.vout)))
    ELSE IF id = "vin" THEN Ok(PyList(r.vin))
    ELSE IF id = "fee" /\ "fee" \in DOMAIN r THEN Ok(PyInt(r.fee))
    ELSE Err("KeyError")

\* the criteria: Greater(1), Satisfy(lambda c: c.n_out > 1) and
\* Satisfy(lambda vin: vin[0]['prevout']['value'] > 1)
Criteria == {"Greater(1)", "Satisfy(n_out > 1)", "Satisfy(prevout value > 1)"}

\* criterion(x)
CallCriterion(c, x) ==
    IF c = "Greater(1)"
    THEN IF x.type = "int" THEN Ok(x.v >= 1) ELSE Err("TypeError")
    ELSE IF c = "Satisfy(n_out > 1)"
    THEN IF x.type = "Candidate" THEN Ok(Len(x.v.vout) > 1)
         ELSE Err("AttributeError")
    ELSE IF x.type = "int" THEN Err("TypeError")
    ELSE IF x.type = "Candidate" THEN Err("KeyError")
    ELSE IF "prevout" \in DOMAIN x.v[1] THEN Ok(x.v[1].prevout.value > 1)
    ELSE Err("KeyError")

Handled == {"KeyError", "AttributeError"}

\* Candidate.match_criterion: what the criterion is called on, and what the
\* call gives
match_criterion(r, id, c) ==
    LET value == GetAttr(r, id)
        first == CallCriterion(c, value.val)
    IN  IF value.raises \in Handled
        THEN [evals |-> <<"self">>, gives |-> CallCriterion(c, PySelf(r))]
        ELSE IF value.raises # ""
        THEN [evals |-> <<>>, gives |-> value]
        ELSE IF first.raises \in Handled
        THEN [evals |-> <<"value", "self">>,
              gives |-> CallCriterion(c, PySelf(r))]
        ELSE [evals |-> <<"value">>, gives |-> first]

InitCandidate ==
    /\ raw_data \in RawTransactions
    /\ answer = NotAsked
    /\ evals = <<>>
    /\ kind = "none"
    /\ start_height = 1
    /\ end_height = 0
    /\ mempool = {}
    /\ worker = "none"
    /\ task = [h \in Ids |-> "none"]
    /\ sent = [h \in {0} \cup Ids |-> 0]
    /\ utxo_req = [h \in Ids |-> 0]
    /\ tx_req = [h \in Ids |-> 0]
    /\ sem = SemPermits
    /\ lock = 0
    /\ result_queue = <<>>
    /\ put_by = <<>>
    /\ feed = <<>>
    /\ gatherer = "dead"
    /\ mode = "candidates"
    /\ call = "idle"
    /\ gen = "suspended"
    /\ buffer = <<>>
    /\ read = <<>>
    /\ yielded = <<>>
    /\ out = <<>>
    /\ scope = "left"
    /\ left_by = "none"
    /\ clock = 0
    /\ closed = FALSE
    /\ term_sent = FALSE
    /\ killed = FALSE
    /\ NoBlockTxs /\ NoScan /\ NoFilter /\ NoRange /\ NoIter

\* candidate.<attr>, for one of the derived attributes
Ask(attr, gives) ==
    /\ answer = NotAsked
    /\ answer' = [attr |-> attr, id |-> "", raises |-> gives.raises,
                  val |-> gives.val]
    /\ UNCHANGED <<raw_data, evals>>
    /\ UNCHANGED <<gvars, tvars, bvars, svars, fvars, rvars, ivars>>

AskAbsFee == Ask("abs_fee", abs_fee(raw_data))
AskRelFee == Ask("rel_fee", rel_fee(raw_data))
AskInAddrs == Ask("in_addrs", in_addrs(raw_data))
AskInTypes == Ask("in_types", in_types(raw_data))
AskNEq == Ask("n_eq", Ok(n_eq(raw_data)))
AskDen == Ask("den", Ok(den(raw_data)))

\* candidate.match_criterion(id_, criterion)
AskMatchCriterion(id, c) ==
    /\ answer = NotAsked
    /\ LET m == match_criterion(raw_data, id, c) IN
        /\ answer' = [attr |-> "match_criterion", id |-> id,
                      raises |-> m.gives.raises, val |-> m.gives.val]
        /\ evals' = m.evals
    /\ UNCHANGED raw_data
    /\ UNCHANGED <<gvars, tvars, bvars, svars, fvars, rvars, ivars>>

NextCandidate ==
    \/ AskAbsFee
    \/ AskRelFee
    \/ AskInAddrs
    \/ AskInTypes
    \/ AskNEq
    \/ AskDen
    \/ \E id \in Identifiers, c \in Criteria : AskMatchCriterion(id, c)

SpecCandidate == InitCandidate /\ [][NextCandidate]_vars

\* -------------------------------------------------- claims, SpecCandidate
\* `attr` has been asked for and has given the value v
Gave(attr, v) == answer.attr = attr => (answer.raises = "" /\ answer.val = v)

\* C27: for every TransactionV3 whose first input is a coinbase input,
\* abs_fee == 0, rel_fee == 0 and the sequences of input addresses and of
\* input types are empty, whatever the other fields of the raw record are,
\* a fee reported by the node among them.
C27_Coinbase ==
    ("coinbase" \in DOMAIN raw_data.vin[1]) =>
        /\ Gave("abs_fee", 0)
        /\ Gave("rel_fee", 0)
        /\ Gave("in_addrs", <<>>)
        /\ Gave("in_types", <<>>)

\* how often the value of output i occurs among the outputs
Multiplicity(i) == Count(raw_data.vout, raw_data.vout[i])

\* the highest multiplicity of an output value
Highest ==
    CHOOSE n \in 1..Len(raw_data.vout) :
        /\ \E i \in 1..Len(raw_data.vout) : Multiplicity(i) = n
        /\ \A i \in 1..Len(raw_data.vout) : Multiplicity(i) <= n

Distinct ==
    \A i, j \in 1..Len(raw_data.vout) :
        raw_data.vout[i] = raw_data.vout[j] => i = j

\* C28: for a transaction with at least one output, n_eq is the highest
\* multiplicity of an output value (at least 1, and 1 exactly when the
\* output values are all distinct); den is 0 when n_eq is 1 and otherwise an
\* output value of that multiplicity.
C28_EqualOutputs ==
    /\ answer.attr = "n_eq" =>
        /\ answer.raises = ""
        /\ answer.val = Highest
        /\ answer.val >= 1
        /\ answer.val = 1 <=> Distinct
    /\ answer.attr = "den" =>
        /\ answer.raises = ""
        /\ IF Highest = 1 THEN answer.val = 0
           ELSE \E i \in 1..Len(raw_data.vout) :
                    /\ raw_data.vout[i].value = answer.val
                    /\ Multiplicity(i) = Highest

\* the outputs 1, 2, 2 have given n_eq 2 or den 2
C28_Witness ==
    /\ raw_data.vout = <<[value |-> 1], [value |-> 2], [value |-> 2]>>
    /\ answer.attr \in {"n_eq", "den"}
    /\ answer.val = 2

\* the identifier names a property of the class or a field of raw_data
Resolves(id) ==
    id \in {"abs_fee", "n_out"} \/ id \in DOMAIN raw_data

\* C29: match_criterion applies the criterion to the value of the attribute
\* or raw field when the identifier resolves, and to the whole candidate
\* only when it resolves to neither; the criterion is evaluated exactly
\* once.
C29_OneEvaluation ==
    answer.attr = "match_criterion" =>
        evals = IF Resolves(answer.id) THEN <<"value">> ELSE <<"self">>

\* ------------------------------------------ claims, SpecBlockTxs (`next`)
\* what has been read is a well-formed queue content, read to its end: each
\* item is a block and ends with b'', and b'END' comes last and only there
WellFormed ==
    /\ \A i \in 1..Len(yielded) : IsBlockJson(yielded[i])
    /\ read # <<>>
    /\ \A i \in 1..Len(read) : IsEndOfStream(read[i]) <=> i = Len(read)
    /\ Len(read) > 1 => read[Len(read) - 1] = EndOfItem

\* C30: calling `next` until it returns None produces the same candidates
\* in the same order as one iteration over `candidates`: once `next` has
\* returned None at the end of a well-formed queue, the caller has got the
\* whole fan-out of the buffers read, none lost and none twice.
C30_NextAsCandidates ==
    (mode = "next" /\ call = "idle" /\ WellFormed)
        => SelectSeq(out, IsTx) = FanOutAll(yielded)

\* ------------------------------------------ claims, SpecGatherer (failures)
\* C31: no splicing on failure. If a fetch task of Blocks fails after
\* relaying chunks of its item and before the item's b'', no chunk of
\* another item is written behind that partial run without a marker
\* between them: an entry of the queue that is not b'' is followed, if by
\* anything, by an entry of the same task.
C31_NoSplicing ==
    kind = "Blocks" =>
        \A i \in Idx :
            (i < Len(result_queue) /\ result_queue[i] # EndOfItem)
                => put_by[i + 1] = put_by[i]

\* ============================================================ MempoolTxsV2
\* SpecMempoolV2: the worker of MempoolTxsV2 with its fetch tasks, and the
\* decoder of MempoolTxsV2 reading the queue while they run.

\* int.from_bytes(entry, byteorder='little')
RECURSIVE FromBytes(_)
FromBytes(entry) ==
    IF entry = <<>> THEN 0 ELSE Head(entry) + 256 * FromBytes(Tail(entry))

\* tx['timestamp_date'] = time; tx['height'] = height, and self._CANDIDATE(tx)
MempoolTxV2(body, height, time) ==
    [is |-> "MempoolTxV2", txid |-> JsonNumber(body),
     height |-> height, timestamp_date |-> time]

\* the decoder stops: _get_buffers has met b'END' (in the for statement, or
\* in a next(buffers) whose StopIteration is caught), or loads has raised
StopV2(what) ==
    /\ call' = "idle"
    /\ gen' = IF mode = "candidates" THEN "stopped" ELSE gen
    /\ block' = NoBlock
    /\ tx_pos' = 0
    /\ out' = IF what = "None" /\ mode = "candidates" THEN out
              ELSE Append(out, NotATx(what))

\* MempoolTxsV2._get_raw_candidates over MempoolTxsV2._get_buffers, one
\* buffer = self._result_queue.get() a step: b'END' ends the stream wherever
\* it is met; otherwise the first buffer of a transaction is its body, the
\* second its height, the third its time, and the transaction is yielded.
GetV2 ==
    /\ kind = "MempoolTxsV2"
    /\ scope = "with"
    /\ call # "idle"
    /\ result_queue # <<>>
    /\ LET entry == Head(result_queue) IN
        /\ result_queue' = Tail(result_queue)
        /\ read' = Append(read, entry)
        /\ IF IsEndOfStream(entry)
           THEN /\ StopV2("None")
                /\ UNCHANGED yielded
           ELSE /\ yielded' = Append(yielded, entry)
                /\ IF tx_pos = 0
                   THEN IF IsJson(entry)
                        THEN /\ block' = [NoBlock EXCEPT !.tx = entry]
                             /\ tx_pos' = 1
                             /\ UNCHANGED <<call, gen, out>>
                        ELSE StopV2("JSONDecodeError")
                   ELSE IF tx_pos = 1
                   THEN /\ block' = [block EXCEPT !.height = FromBytes(entry)]
                        /\ tx_pos' = 2
                        /\ UNCHANGED <<call, gen, out>>
                   ELSE /\ out' = Append(out, MempoolTxV2(block.tx, block.height,
                                                          FromBytes(entry)))
                        /\ block' = NoBlock
                        /\ tx_pos' = 0
                        /\ call' = "idle"
                        /\ UNCHANGED gen
    /\ UNCHANGED <<kind, start_height, end_height, mempool, worker, task, sent,
                   utxo_req, tx_req, sem, lock, put_by>>
    /\ UNCHANGED <<feed, gatherer, mode, buffer, scope, left_by, clock, closed,
                   term_sent, killed>>
    /\ UNCHANGED xvars

InitMempoolV2 ==
    /\ InitMempoolTxsV2
    /\ kind = "MempoolTxsV2"
    /\ sent = [h \in {0} \cup Ids |-> 0]
    /\ utxo_req = [h \in Ids |-> 0]
    /\ tx_req = [h \in Ids |-> 0]
    /\ sem = SemPermits
    /\ lock = 0
    /\ result_queue = <<>>
    /\ put_by = <<>>
    /\ feed = <<>>
    /\ gatherer = "alive"
    /\ mode \in {"candidates", "next"}
    /\ call = "idle"
    /\ gen = "suspended"
    /\ buffer = <<>>
    /\ read = <<>>
    /\ yielded = <<>>
    /\ out = <<>>
    /\ scope = "with"
    /\ left_by = "none"
    /\ clock = 0
    /\ closed = FALSE
    /\ term_sent = FALSE
    /\ killed = FALSE
    /\ NoBlockTxs /\ NoScan /\ NoFilter /\ NoRange /\ NoCandidate /\ NoIter

NextMempoolV2 ==
    \/ \E n \in 0..MaxTx : GetMempoolOk(n)
    \/ GetMempoolFail
    \/ \E h \in Ids : TxAcquire(h)
    \/ \E h \in Ids : TxBytesOk(h)
    \/ \E h \in Ids : TxFail(h)
    \/ GatherDone
    \/ WorkerRaise
    \/ CallNext
    \/ CallCandidates
    \/ GetV2

SpecMempoolV2 == InitMempoolV2 /\ [][NextMempoolV2]_vars

\* --------------------------------------------------- claims, SpecMempoolV2
\* every entry put so far, read or not, in the order of the puts
Put == read \o result_queue

\* positions of the entries task h has put
PutOf(h) == {i \in 1..Len(put_by) : put_by[i] = h}

\* the candidates the caller has got
GotV2 == SelectSeq(out, LAMBDA c : c.is = "MempoolTxV2")

\* C33: MempoolTxsV2 item atomicity without a lock. For each mempool
\* transaction the three queue entries (body, 3-byte height, 8-byte time)
\* are enqueued one behind the other with no entry of another transaction
\* between them, whatever the interleaving of the tasks, so that the
\* decoder attaches to each transaction its own height and time and yields
\* one candidate per transaction: the k-th candidate is made of the k-th
\* triple of the queue.
C33_TripleAtomic ==
    /\ \A h \in Ids :
           \/ PutOf(h) = {}
           \/ \E i \in 1..Len(put_by) :
                  /\ PutOf(h) = {i, i + 1, i + 2}
                  /\ SubSeq(Put, i, i + 2) = TxV2Entries(h)
    /\ \A k \in 1..Len(GotV2) :
           LET h == put_by[3 * k] IN
           /\ PutOf(h) = {3 * k - 2, 3 * k - 1, 3 * k}
           /\ GotV2[k] = MempoolTxV2(Chunk(h, 1), MempoolHeight(h),
                                     MempoolTime(h))
    /\ Len(GotV2) = Len(SelectSeq(read, LAMBDA e : ~IsEndOfStream(e))) \div 3

\* three tasks ran together, transaction 2 was put before transaction 1,
\* and the decoder has yielded both, each with its own height
C33_Witness ==
    /\ Cardinality(mempool) = 3
    /\ Len(put_by) >= 6 /\ put_by[1] = 2 /\ put_by[4] = 1
    /\ Len(GotV2) >= 2
    /\ GotV2[1].height = MempoolHeight(2)
    /\ GotV2[2].height = MempoolHeight(1)

\* ================================================================= framing
\* SpecFraming: the decoders of Blocks and of MempoolTxsV2 on what a worker
\* that never fails puts, the payloads among it holding any bytes the
\* endpoint may send. Each entry of the feed is the bytes put and what the
\* worker put them as: "data", the "item" marker or the "END" marker.

MaxItems == 2

Data(bytes) == [bytes |-> bytes, what |-> "data"]

\* a chunk of a block body as iter_any() cuts it: b'1', or the three bytes
\* b'END' (iter_any() never yields b'')
BodyChunks == {<<49>>, EndOfStream}

\* Blocks.task: the chunks of one block and b''
BlockItems ==
    {[i \in 1..Len(cs) |-> Data(cs[i])] \o <<[bytes |-> EndOfItem, what |-> "item"]>> :
        cs \in BoundedSeq(BodyChunks, MaxChunks) \ {<<>>}}

\* MempoolTxsV2.task: body, height.to_bytes(3), time.to_bytes(8) of one
\* transaction, whose height is MempoolHeight(1) or 4476485
TxItems ==
    {<<Data(<<49>>), Data(ToBytes(height, 3)), Data(ToBytes(MempoolTime(1), 8))>> :
        height \in {MempoolHeight(1), FromBytes(EndOfStream)}}

RECURSIVE Streams(_, _)
Streams(items, n) ==
    IF n = 0 THEN {<<>>}
    ELSE Streams(items, n - 1)
         \cup {s \o item : s \in Streams(items, n - 1), item \in items}

\* _worker: the items of the tasks, then b'END'
Framed(items) ==
    {s \o <<[bytes |-> EndOfStream, what |-> "END"]>> : s \in Streams(items, MaxItems)}

InitFraming ==
    /\ kind \in {"Blocks", "MempoolTxsV2"}
    /\ start_height = 1
    /\ end_height = 0
    /\ mempool = {}
    /\ worker = "running"
    /\ task = [h \in Ids |-> "none"]
    /\ sent = [h \in {0} \cup Ids |-> 0]
    /\ utxo_req = [h \in Ids |-> 0]
    /\ tx_req = [h \in Ids |-> 0]
    /\ sem = SemPermits
    /\ lock = 0
    /\ result_queue = <<>>
    /\ put_by = <<>>
    /\ feed \in Framed(IF kind = "Blocks" THEN BlockItems ELSE TxItems)
    /\ gatherer = "alive"
    /\ mode \in {"candidates", "next"}
    /\ call = "idle"
    /\ gen = "suspended"
    /\ buffer = <<>>
    /\ read = <<>>
    /\ yielded = <<>>
    /\ out = <<>>
    /\ scope = "with"
    /\ left_by = "none"
    /\ clock = 0
    /\ closed = FALSE
    /\ term_sent = FALSE
    /\ killed = FALSE
    /\ NoBlockTxs /\ NoScan /\ NoFilter /\ NoRange /\ NoCandidate /\ NoIter

\* self._result_queue.put_nowait(...) of the next entry
FramedPut ==
    /\ gatherer = "alive" /\ worker = "running"
    /\ feed # <<>>
    /\ PutNowait(<<Head(feed).bytes>>, Head(feed).what)
    /\ feed' = Tail(feed)
    /\ UNCHANGED <<kind, start_height, end_height, mempool, worker, task, sent,
                   utxo_req, tx_req, sem, lock>>
    /\ UNCHANGED <<gatherer, mode, call, gen, buffer, read, yielded, out, scope,
                   left_by, clock, closed, term_sent, killed>>
    /\ UNCHANGED <<bvars, xvars>>

\* Blocks inherits Target._get_buffers
GetBlocks == kind = "Blocks" /\ Get

NextFraming ==
    \/ FramedPut
    \/ WorkerReturn
    \/ CallNext
    \/ CallCandidates
    \/ GetBlocks
    \/ GetV2

SpecFraming == InitFraming /\ [][NextFraming]_vars

\* ----------------------------------------------------- claims, SpecFraming
\* the caller has been told that the stream is over: the for loop over
\* candidates has ended, or next has returned None
StreamOver ==
    /\ call = "idle"
    /\ \/ mode = "candidates" /\ gen = "stopped"
       \/ mode = "next" /\ out # <<>> /\ out[Len(out)].is = "None"

\* C32: no marker collision. An entry the gatherer put as data is never
\* taken by the decoder for a marker, whatever its bytes: the stream is
\* over for the caller only when the last entry read is the end-of-stream
\* marker the gatherer put, and in Blocks a buffer is yielded only at an
\* end-of-item marker the gatherer put.
C32_NoMarkerCollision ==
    /\ StreamOver => (read # <<>> /\ put_by[Len(read)] = "END")
    /\ kind = "Blocks" =>
           Len(yielded) = Cardinality({i \in 1..Len(read) : put_by[i] = "item"})

\* ======================================================== Blocks, scheduled
\* SpecBlocksFair: Blocks._worker when no request and no stream fails. The
\* event loop runs every callback that is ready, first come first served, so
\* a step of a task that stays possible is taken; an answer of the endpoint
\* and the end of a body stream are steps of this kind, by the assumption
\* that every fetch and every stream completes.
InitBlocksFair == InitGatherer /\ kind = "Blocks"

NextBlocksFair ==
    \/ \E h \in Ids : BlockAcquire(h)
    \/ \E h \in Ids : BlockHashOk(h)
    \/ \E h \in Ids : BlockChunksOk(h)
    \/ \E h \in Ids : BlockLock(h)
    \/ \E h \in Ids : BlockChunk(h)
    \/ \E h \in Ids : BlockEof(h)
    \/ GatherDone

FairBlocks ==
    /\ \A h \in Ids : WF_vars(BlockAcquire(h))
    /\ \A h \in Ids : WF_vars(BlockHashOk(h))
    /\ \A h \in Ids : WF_vars(BlockChunksOk(h))
    /\ \A h \in Ids : WF_vars(BlockLock(h))
    /\ \A h \in Ids : WF_vars(BlockEof(h))
    /\ WF_vars(GatherDone)

SpecBlocksFair == InitBlocksFair /\ [][NextBlocksFair]_vars /\ FairBlocks

\* ---------------------------------------------------- claims, SpecBlocksFair
\* C34: deadlock freedom of the Blocks gatherer. A task keeps its permit of
\* the Semaphore while it waits for the Lock; all the same, when every fetch
\* and every stream completes, every task that waits for the Lock gets it,
\* every task created ends with its item put and with the Lock and its
\* permit given back, and the worker puts the end-of-stream marker.
C34_DeadlockFree ==
    /\ \A h \in Ids : (task[h] = "lock") ~> (lock = h)
    /\ <>(/\ worker = "returned"
          /\ \A h \in Heights : task[h] = "done"
          /\ sem = SemPermits /\ lock = 0
          /\ \A h \in Heights : \E i \in Idx : put_by[i] = h /\ result_queue[i] = EndOfItem
          /\ result_queue[Len(result_queue)] = EndOfStream)

\* every permit is taken, one more task waits for a permit, and a task
\* that holds a permit waits for the Lock
C34_Witness ==
    /\ kind = "Blocks"
    /\ sem = 0
    /\ \E h \in Heights : task[h] = "new"
    /\ \E h \in Heights : task[h] = "lock" /\ lock \notin {0, h}

\* ------------------------------------------------ claims, SpecScan (hand-out)
\* the tasks the generator has yielded
Handed == {handed[i] : i \in 1..Len(handed)}

\* `while pending` has ended the generator
Exhausted == pc \in {"cleanup", "returned"} /\ gen_pending = {} /\ done = {}

\* C35: task hand-out in iterate_blocks / iterate_mem_txs. Every fetch task
\* created is yielded to the scan once, never twice, and all of them have
\* been yielded when the generator is exhausted; a task is yielded only
\* after it is done; the pending set yielded with it is the set of the tasks
\* that were not done when the latest wait returned, and holds no task that
\* has been yielded.
C35_HandOut ==
    /\ \A i, j \in 1..Len(handed) : handed[i] = handed[j] => i = j
    /\ \A h \in Handed \cup done : Finished(h)
    /\ Created = gen_pending \cup done \cup Handed
    /\ gen_pending \cap done = {} /\ done \cap Handed = {}
    /\ Exhausted => Handed = Created
    /\ pc = "await" =>
           /\ block_done = handed[Len(handed)]
           /\ pending = gen_pending
           /\ \A h \in pending : ~Finished(h)
    /\ pending \cap Handed = {}

\* a task has been yielded with a pending set that is not empty, and the
\* scan is about to await it
C35_Witness ==
    /\ pc = "await"
    /\ Len(handed) = 1
    /\ Finished(block_done)
    /\ pending # {}

\* C37: empty work set. scan_mem on an empty mempool snapshot creates no
\* fetch task, yields nothing and goes on to return an empty result without
\* entering any error path: the step that finds the snapshot empty creates
\* and hands out nothing and prints no error.
C37_EmptyWorkSet ==
    [][GetMempoolSnapshot(0) =>
           /\ fetch' = [h \in Ids |-> "none"]
           /\ handed' = <<>> /\ result' = <<>>
           /\ printed' = ""]_vars

\* ===================================================== get_blocks_from_rpc
\* SpecRpcBlocks: one call of get_blocks_from_rpc(start, end, rpc, None,
\* max_concurrency) on a chain whose tip is rpc_args.tip. A blockhash is
\* written as the height of its block.

MaxRpcHeight == 3
MaxRpcConcurrency == 2

\* range(start, min(start + max_concurrency, end + 1))
FirstBatch(a) ==
    a.start..((IF a.start + a.max_concurrency < a.end + 1
               THEN a.start + a.max_concurrency ELSE a.end + 1) - 1)

\* range(start, end + 1), numbered from 1: the get_block tasks
BlockTasks(a) == 1..(a.end + 1 - a.start)

InitRpcBlocks ==
    /\ rpc_args \in {[start |-> s, end |-> e, max_concurrency |-> c, tip |-> t] :
                        s \in 1..MaxRpcHeight, e \in 1..MaxRpcHeight,
                        c \in 1..MaxRpcConcurrency, t \in 1..MaxRpcHeight}
    /\ rpc_args.start <= rpc_args.end
    /\ iter_pc = "hashes"
    /\ hash_tasks = FirstBatch(rpc_args)
    /\ first_batch_blockhashes = <<>>
    /\ hashes_queue = <<>>
    /\ block_tasks = [k \in BlockTasks(rpc_args) |-> [at |-> "none", hash |-> 0]]
    /\ completed = <<>>
    /\ blocks_yielded = <<>>
    /\ kind = "none"
    /\ start_height = 1
    /\ end_height = 0
    /\ mempool = {}
    /\ worker = "none"
    /\ task = [h \in Ids |-> "none"]
    /\ sent = [h \in {0} \cup Ids |-> 0]
    /\ utxo_req = [h \in Ids |-> 0]
    /\ tx_req = [h \in Ids |-> 0]
    /\ sem = SemPermits
    /\ lock = 0
    /\ result_queue = <<>>
    /\ put_by = <<>>
    /\ feed = <<>>
    /\ gatherer = "dead"
    /\ mode = "candidates"
    /\ call = "idle"
    /\ gen = "suspended"
    /\ buffer = <<>>
    /\ read = <<>>
    /\ yielded = <<>>
    /\ out = <<>>
    /\ scope = "left"
    /\ left_by = "none"
    /\ clock = 0
    /\ closed = FALSE
    /\ term_sent = FALSE
    /\ killed = FALSE
    /\ NoBlockTxs /\ NoScan /\ NoFilter /\ NoRange /\ NoCandidate

\* what no step of get_blocks_from_rpc changes
RpcFixed ==
    /\ UNCHANGED rpc_args
    /\ UNCHANGED <<gvars, tvars, bvars, svars, fvars, rvars, cvars>>

\* for result in as_completed(list(hash_tasks)): blockhash = await result
\* The getblockhash of height h is the next to complete: its hash goes to
\* first_batch_blockhashes and to the queue, or, for a height above the
\* tip, its error is raised in the generator.
HashDone(h) ==
    /\ iter_pc = "hashes"
    /\ h \in hash_tasks
    /\ hash_tasks' = hash_tasks \ {h}
    /\ IF h <= rpc_args.tip
       THEN /\ first_batch_blockhashes' = Append(first_batch_blockhashes, h)
            /\ hashes_queue' = Append(hashes_queue, h)
            /\ UNCHANGED iter_pc
       ELSE /\ iter_pc' = "raised"
            /\ UNCHANGED <<first_batch_blockhashes, hashes_queue>>
    /\ UNCHANGED <<block_tasks, completed, blocks_yielded>>
    /\ RpcFixed

\* block_tasks = (create_task(get_block()) for _ in range(start, end + 1))
\* and as_completed(list(block_tasks)): every get_block task is created
CreateBlockTasks ==
    /\ iter_pc = "hashes"
    /\ hash_tasks = {}
    /\ block_tasks' = [k \in BlockTasks(rpc_args) |-> [at |-> "get", hash |-> 0]]
    /\ iter_pc' = "blocks"
    /\ UNCHANGED <<hash_tasks, first_batch_blockhashes, hashes_queue,
                   completed, blocks_yielded>>
    /\ RpcFixed

\* await hashes_queue.get() returns in task k: the getters are served first
\* come first served, and the tasks first run in the order of creation
HashesQueueGet(k) ==
    /\ iter_pc = "blocks"
    /\ k \in DOMAIN block_tasks
    /\ block_tasks[k].at = "get"
    /\ \A j \in DOMAIN block_tasks : j < k => block_tasks[j].at # "get"
    /\ hashes_queue # <<>>
    /\ block_tasks' = [block_tasks EXCEPT ![k] = [at |-> "getblock",
                                                 hash |-> Head(hashes_queue)]]
    /\ hashes_queue' = Tail(hashes_queue)
    /\ UNCHANGED <<iter_pc, hash_tasks, first_batch_blockhashes, completed,
                   blocks_yielded>>
    /\ RpcFixed

\* block['nextblockhash'] in first_batch_blockhashes
InFirstBatch(blockhash) ==
    \E i \in 1..Len(first_batch_blockhashes) : first_batch_blockhashes[i] = blockhash

\* rpc.getblock answers task k. The block has a nextblockhash unless it is
\* the tip (KeyError: pass); a nextblockhash that is not of the first batch
\* is put on the queue, which has room for it: a task puts after it has
\* got, and the queue holds max_concurrency hashes. The task is done.
GetBlockOk(k) ==
    /\ iter_pc = "blocks"
    /\ k \in DOMAIN block_tasks
    /\ block_tasks[k].at = "getblock"
    /\ LET height == block_tasks[k].hash IN
          hashes_queue' =
              IF height < rpc_args.tip /\ ~InFirstBatch(height + 1)
              THEN Append(hashes_queue, height + 1)
              ELSE hashes_queue
    /\ block_tasks' = [block_tasks EXCEPT ![k].at = "done"]
    /\ completed' = Append(completed, k)
    /\ UNCHANGED <<iter_pc, hash_tasks, first_batch_blockhashes, blocks_yielded>>
    /\ RpcFixed

\* for result in as_completed(list(block_tasks)): yield await result
YieldBlock ==
    /\ iter_pc = "blocks"
    /\ completed # <<>>
    /\ blocks_yielded' = Append(blocks_yielded, block_tasks[Head(completed)].hash)
    /\ completed' = Tail(completed)
    /\ UNCHANGED <<iter_pc, hash_tasks, first_batch_blockhashes, hashes_queue,
                   block_tasks>>
    /\ RpcFixed

\* as_completed is exhausted: the generator returns
IterReturns ==
    /\ iter_pc = "blocks"
    /\ Len(blocks_yielded) = Cardinality(BlockTasks(rpc_args))
    /\ iter_pc' = "finished"
    /\ UNCHANGED <<hash_tasks, first_batch_blockhashes, hashes_queue,
                   block_tasks, completed, blocks_yielded>>
    /\ RpcFixed

NextRpcBlocks ==
    \/ \E h \in 1..MaxRpcHeight : HashDone(h)
    \/ CreateBlockTasks
    \/ \E k \in 1..MaxRpcHeight : HashesQueueGet(k)
    \/ \E k \in 1..MaxRpcHeight : GetBlockOk(k)
    \/ YieldBlock
    \/ IterReturns

SpecRpcBlocks == InitRpcBlocks /\ [][NextRpcBlocks]_vars

\* --------------------------------------------------- claims, SpecRpcBlocks
\* the heights of [start, end] that exist on the chain
OnChain ==
    {h \in rpc_args.start..rpc_args.end : h <= rpc_args.tip}

\* the generator is suspended in as_completed with nothing that could wake
\* it: no block is left to yield, no getblock is in flight, the queue is
\* empty and a get_block task waits in hashes_queue.get()
WaitsForever ==
    /\ iter_pc = "blocks"
    /\ completed = <<>>
    /\ hashes_queue = <<>>
    /\ \A k \in DOMAIN block_tasks : block_tasks[k].at # "getblock"
    /\ \E k \in DOMAIN block_tasks : block_tasks[k].at = "get"

\* C36: get_blocks_from_rpc (hash-queue variant). For start <= end it yields
\* one block per height of [start, end] that exists on the chain, none
\* twice and no other, and then terminates; when the chain tip is reached
\* before `end` the scan is over: the generator terminates, and no
\* get_block task is left waiting for ever for a hash that is never queued.
C36_HashQueue ==
    /\ \A i, j \in 1..Len(blocks_yielded) :
           blocks_yielded[i] = blocks_yielded[j] => i = j
    /\ \A i \in 1..Len(blocks_yielded) : blocks_yielded[i] \in OnChain
    /\ Len(hashes_queue) <= rpc_args.max_concurrency
    /\ iter_pc = "finished" =>
           {blocks_yielded[i] : i \in 1..Len(blocks_yielded)} = OnChain
    /\ ~WaitsForever

====
